---- MODULE Spec2Model ----
(***************************************************************************)
(* State-machine model of mountebank-redis-repository: the redis-backed    *)
(* imposter storage (ImposterStorage.ts), the per-imposter stub view       *)
(* (stubRepository.ts), the matched-stub handle (wrap.ts) and the          *)
(* repository facade (index.ts: add / get / del).                          *)
(*                                                                         *)
(* Spec runs one process whose calls are awaited one after the other: each *)
(* action is one whole handler, store round trips included.                *)
(***************************************************************************)
EXTENDS Integers, Sequences, FiniteSets, TLC

VARIABLES
    imposter,        \* redis hash 'imposter':       port -> ImposterConfig
    meta,            \* redis hash 'meta':           <<port, stubId>> -> StubMeta
    response,        \* redis hash 'response':       responseId -> MbResponse
    matches,         \* redis hash 'matches':        stubId -> list of StubMatch
    requests,        \* redis hash 'requests':       port -> list of recorded requests
    requestCounter,  \* redis hash 'requestCounter': port -> number
    idCounter,       \* ImposterStorage._idCounter
    imposterFns,     \* create(): ports with an entry in the in-memory imposterFns table
    closed,          \* RedisClient._isStopped of the process's store client
    subscriptions,   \* RedisClient._pubSubCallbacks: the channels that have a callback
    listening,       \* the channels the redis server sends to the subscriber connection of the process
    wire,            \* subscribe / unsubscribe commands sent on that connection, not yet handled by the server
    acks,            \* replies to subscribe commands the client has not handled yet
    unsubscribed,    \* channels whose latest call on the client was unsubscribe(channel)
    epoch,           \* what new Date().valueOf() returns now
    otherIdCounter,  \* _idCounter of the other ImposterStorage instances that share the store
    issued,          \* the ids the _generateId calls of all instances have returned, with the caller
    inbox,           \* messages sent to the process's subscriber and not yet handled
    stopped,         \* ports whose stop() the latest lifecycle call or notification handler invoked
    pc,              \* "stopAll" while a stopAll() is past its synchronous part, else "idle"
    appProtocols,    \* create(): the names of the protocols the latest loadAll() was given
    overwriting,     \* stubRepository.overwriteAtIndex between its two awaits: what it was called with
    responding,      \* wrap.nextResponse between its two awaits: the port and the response config read
    pushing,         \* RedisClient.pushToObject calls between hget and hset: the items each has read
    errors,          \* the tags of the logger.error calls of the store client, oldest first
    calls,           \* ImposterStorage calls between two awaits: what each has read of the store
    tracked,         \* create(): which imposter instance the entry of a port in imposterFns holds
    instances,       \* every imposter instance the process obtained: its port, its origin, its stop() calls
    handlers,        \* notification handlers and facade calls of the process between two awaits
    handle,          \* the { success, stub } object the latest first() resolved to
    history,         \* per live stub: what it was created with and how it was used since
    last             \* the latest completed call: its name, arguments and outcome

vars == <<imposter, meta, response, matches, requests, requestCounter,
          idCounter, imposterFns, closed, subscriptions, listening, wire, acks,
          unsubscribed, epoch, otherIdCounter, issued, inbox, stopped, pc,
          appProtocols, overwriting, responding, pushing, errors, calls, tracked,
          instances, handlers, handle, history, last>>

----------------------------------------------------------------------------
\* Bounds of the model.

MaxStubs == 2        \* stubs in one imposter's stub sequence
MaxIdCounter == 5    \* ids one ImposterStorage generates for the stubs and responses it is given
MaxRewriteIds == 9   \* the same, counting the ids deleteSavedProxyResponses draws to save stubs again
MaxRequests == 4     \* nextResponse() calls counted per imposter
MaxMatches == 1      \* match records kept per stub
MaxRequestLog == 1   \* recorded requests kept per imposter
MaxRepeat == 2       \* largest repeat count a response declares
MaxInbox == 1        \* messages waiting in the subscriber of the process
MaxLogged == 2       \* requests one imposter's request log holds, where their order is looked at
MaxEpoch == 1        \* milliseconds the clock advances
MaxIssued == 3       \* ids drawn where all instances are looked at together
MaxErrors == 4
MaxWire == 2         \* subscribe / unsubscribe calls that have not resolved
MaxInstances == 3    \* imposter instances a process obtains
MaxHandlers == 2     \* notification handlers in flight

Ports == {1}

----------------------------------------------------------------------------
\* Values.

\* An optional field (a missing property, or a null result) is a sequence of
\* length zero or one.
None == <<>>
Some(x) == <<x>>
IsSome(o) == o /= <<>>
Val(o) == o[1]

\* JavaScript numbers that are no index: NaN (x % 0) and, once JSON.stringify
\* has written it into the store, null.
JsNaN == -1
JsonNull == -2

\* MbResponse: `is` stands for the opaque body, proxyResponseTime for a numeric
\* is._proxyResponseTime.  repeat 0 is a missing (or zero) repeat, both falsy in
\* `response.repeat || 1`; the declared type is `number`, so a negative value
\* is an input too.
Resp(is, repeat, recorded) == [is |-> is, repeat |-> repeat, proxyResponseTime |-> recorded]

\* What addResponse is called with.
Responses == { Resp("p", 0, TRUE), Resp("r", -1, FALSE) }

\* createResponse() without a config: { is: {} }
EmptyResponse == Resp("{}", 0, FALSE)

\* Stub as a caller passes it: predicates and responses are both optional.
Stub(predicates, responses) == [predicates |-> predicates, responses |-> responses]

StubInputs ==
    { Stub(None, None),                                                  \* {}
      Stub(Some(<<>>), Some(<<Resp("a", 0, FALSE)>>)),
      Stub(Some(<<"P">>), Some(<<Resp("p", 0, TRUE), Resp("r", MaxRepeat, FALSE)>>)) }

RECURSIVE SeqsUpTo(_, _)
SeqsUpTo(S, n) ==
    IF n = 0 THEN {<<>>}
    ELSE LET shorter == SeqsUpTo(S, n - 1)
         IN shorter \cup {Append(s, x) : s \in {t \in shorter : Len(t) = n - 1}, x \in S}

\* ImposterCreationRequest: port, protocol and the optional stubs.
Configs ==
    { [port |-> p, protocol |-> "tcp", stubs |-> ss] :
        p \in Ports, ss \in {None} \cup {Some(l) : l \in SeqsUpTo(StubInputs, MaxStubs)} }

\* StubFilterFunction: what first() is called with.
Filters == {"all", "noPredicates", "hasPredicates"}
ApplyFilter(f, predicates) ==
    CASE f = "all" -> TRUE
      [] f = "noPredicates" -> Len(predicates) = 0
      [] f = "hasPredicates" -> Len(predicates) > 0

----------------------------------------------------------------------------
\* RedisClient: a hash is a function from its fields to the stored values.

NoFields == [x \in {} |-> 0]
setObject(hash, id, obj) == [x \in DOMAIN hash \cup {id} |-> IF x = id THEN obj ELSE hash[x]]
delObject(hash, id) == [x \in DOMAIN hash \ {id} |-> hash[x]]
getObject(hash, id) == IF id \in DOMAIN hash THEN Some(hash[id]) ELSE None
pushToObject(hash, id, obj) ==
    setObject(hash, id, Append(IF id \in DOMAIN hash THEN hash[id] ELSE <<>>, obj))

----------------------------------------------------------------------------
\* ImposterStorage: every method takes the store as the record w (the six
\* hashes, the instance's id counter and the messages published by the call
\* so far) and yields the store it leaves behind.

Store ==
    [imposter |-> imposter, meta |-> meta, response |-> response, matches |-> matches,
     requests |-> requests, requestCounter |-> requestCounter, idCounter |-> idCounter,
     published |-> <<>>]

publish(w, channel, payload) == [w EXCEPT !.published = Append(@, <<channel, payload>>)]

\* `${prefix}-${epoch}-${process.pid}-${this._idCounter}` after `_idCounter += 1`:
\* within one ImposterStorage the counter alone tells two ids apart, so the
\* epoch and the pid of the one process are left out of the id.
generateId(prefix, counter) == <<prefix, counter>>

\* The same id in full, for the instances of one or several processes.
generateIdAt(prefix, now, pid, counter) == <<prefix, now, pid, counter>>

\* The ImposterStorage instances that share the store next to the one of this
\* repository: the one of a second repository created in the same process,
\* and the one of a repository in another process of the same host.
OtherStorages == {"sibling", "peer"}
ProcessPid(storage) == IF storage = "peer" THEN 2 ELSE 1

\* repeatsFor that forgets the repeat count.
repeatsForOnce(resp) == 1

repeatsFor(resp) == IF resp.repeat /= 0 THEN resp.repeat ELSE 1

\* for (let repeats = 0; repeats < n; repeats += 1) { order.push(index); }
RECURSIVE pushRepeats(_, _, _, _)
pushRepeats(order, index, repeats, n) ==
    IF repeats < n THEN pushRepeats(Append(order, index), index, repeats + 1, n) ELSE order

\* JSON.stringify writes NaN as null.
JsonNumber(n) == IF n = JsNaN THEN JsonNull ELSE n
\* Number(null) is 0.
ToNumber(n) == IF n = JsonNull THEN 0 ELSE n
\* a % b of JavaScript, for a >= 0: NaN when b is 0.
JsMod(a, b) == IF a = JsNaN \/ b = 0 THEN JsNaN ELSE a % b

metaKey(imposterId, stubId) == <<imposterId, stubId>>

saveImposter(w, imp) ==
    publish([w EXCEPT !.imposter = setObject(@, imp.port, imp)], "imposter_change", imp.port)

getImposter(w, imposterId) == getObject(w.imposter, imposterId)

getStubs(w, imposterId) ==
    IF IsSome(getImposter(w, imposterId)) THEN Val(getImposter(w, imposterId)).stubs ELSE <<>>

getMeta(w, imposterId, stubId) == getObject(w.meta, metaKey(imposterId, stubId))

saveMeta(w, imposterId, stubId, m) ==
    [w EXCEPT !.meta = setObject(@, metaKey(imposterId, stubId),
                                 [m EXCEPT !.nextIndex = JsonNumber(@)])]

getResponse(w, responseId) ==
    IF IsSome(responseId) THEN getObject(w.response, Val(responseId)) ELSE None

\* stub.responses || []
responsesOf(stub) == IF IsSome(stub.responses) THEN Val(stub.responses) ELSE <<>>

\* The loop of saveStubMetaAndResponses from response i (0-based) on: the
\* response is stored under its id, the id and its repeated index are pushed.
RECURSIVE saveResponses(_, _, _, _, _)
saveResponses(w, m, responses, respNums, i) ==
    IF i >= Len(responses) THEN [w |-> w, meta |-> m]
    ELSE LET responseId == generateId("response", respNums[i + 1])
             w1 == [w EXCEPT !.response = setObject(@, responseId, responses[i + 1]),
                             !.idCounter = @ + 1]
             m1 == [m EXCEPT !.responseIds = Append(@, responseId),
                             !.orderWithRepeats =
                                 pushRepeats(@, i, 0, repeatsFor(responses[i + 1]))]
         IN saveResponses(w1, m1, responses, respNums, i + 1)

\* saveStubMetaAndResponses, with the counter values its _generateId calls draw:
\* stubNum for the stub, respNums[i] for its i-th response.
\* A stub definition that loses the predicates.
stubDefinitionBare(stub, stubId) == [meta |-> [id |-> stubId], predicates |-> None]

stubDefinitionOf(stub, stubId) == [meta |-> [id |-> stubId], predicates |-> stub.predicates]

saveStubMetaAndResponses(w, imposterId, stub, stubNum, respNums) ==
    LET stubId == generateId("stub", stubNum)
        m0 == [responseIds |-> <<>>, orderWithRepeats |-> <<>>, nextIndex |-> 0]
        saved == saveResponses([w EXCEPT !.idCounter = @ + 1], m0, responsesOf(stub), respNums, 0)
    IN [w |-> saveMeta(saved.w, imposterId, stubId, saved.meta),
        def |-> stubDefinitionOf(stub, stubId)]

\* The same called and awaited on its own: the ids follow the counter.
saveStubNext(w, imposterId, stub) ==
    saveStubMetaAndResponses(w, imposterId, stub, w.idCounter + 1,
        [i \in 1..Len(responsesOf(stub)) |-> w.idCounter + 1 + i])

idsNeeded(stub) == 1 + Len(responsesOf(stub))

RECURSIVE idsNeededAll(_)
idsNeededAll(stubs) == IF stubs = <<>> THEN 0 ELSE idsNeeded(Head(stubs)) + idsNeededAll(Tail(stubs))

\* _deleteStub: the responses the meta lists, the meta, the match list.
RECURSIVE deleteResponses(_, _)
deleteResponses(hash, responseIds) ==
    IF responseIds = <<>> THEN hash
    ELSE deleteResponses(delObject(hash, Head(responseIds)), Tail(responseIds))

\* _deleteStub that removes the meta and leaves what hangs on it.
deleteStubMetaOnly(w, imposterId, stubId) ==
    [w EXCEPT !.meta = delObject(@, metaKey(imposterId, stubId))]

deleteStub(w, imposterId, stubId) ==
    LET m == getMeta(w, imposterId, stubId)
        w1 == IF IsSome(m)
              THEN [w EXCEPT !.response = deleteResponses(@, Val(m).responseIds),
                             !.meta = delObject(@, metaKey(imposterId, stubId))]
              ELSE w
    IN [w1 EXCEPT !.matches = delObject(@, stubId)]

\* Promise.all(stubs.map(stub => this._deleteStub(imposterId, stub.meta.id))):
\* the deletions touch different fields, so their order does not show.
RECURSIVE deleteStubs(_, _, _)
deleteStubs(w, imposterId, stubs) ==
    IF stubs = <<>> THEN w
    ELSE deleteStubs(deleteStub(w, imposterId, Head(stubs).meta.id), imposterId, Tail(stubs))

\* deleteImposter that clears the request counter of the imposter too.
deleteImposterAndCounter(w, imposterId) ==
    IF ~IsSome(getImposter(w, imposterId)) THEN w
    ELSE LET w1 == deleteStubs(w, imposterId, Val(getImposter(w, imposterId)).stubs)
             w2 == [w1 EXCEPT !.imposter = delObject(@, imposterId),
                              !.requests = delObject(@, imposterId),
                              !.requestCounter = delObject(@, imposterId)]
         IN publish(w2, "imposter_delete", imposterId)

deleteImposter(w, imposterId) ==
    IF ~IsSome(getImposter(w, imposterId)) THEN w
    ELSE LET w1 == deleteStubs(w, imposterId, Val(getImposter(w, imposterId)).stubs)
             w2 == [w1 EXCEPT !.imposter = delObject(@, imposterId),
                              !.requests = delObject(@, imposterId)]
         IN publish(w2, "imposter_delete", imposterId)

\* splice(index, 1, x): the element at index is replaced.
spliceOver(seq, index, x) ==
    LET at == IF index > Len(seq) THEN Len(seq) ELSE index
    IN SubSeq(seq, 1, at) \o <<x>> \o SubSeq(seq, at + 2, Len(seq))

\* Array.prototype.splice(index, 0, x) and splice(index, 1), for index >= 0.
spliceIn(seq, index, x) ==
    LET at == IF index > Len(seq) THEN Len(seq) ELSE index
    IN SubSeq(seq, 1, at) \o <<x>> \o SubSeq(seq, at + 1, Len(seq))
spliceOut(seq, index) == SubSeq(seq, 1, index) \o SubSeq(seq, index + 2, Len(seq))

\* addStub(imposterId, stub, index?): index is None for `undefined`.
\* addStub that saves the stub's records before it looks for the imposter.
addStubUnchecked(w, imposterId, stub, index) ==
    LET saved == saveStubNext(w, imposterId, stub)
    IN IF ~IsSome(getImposter(w, imposterId)) THEN saved.w
       ELSE saveImposter(saved.w,
                         [Val(getImposter(w, imposterId)) EXCEPT
                             !.stubs = IF IsSome(index) THEN spliceIn(@, Val(index), saved.def)
                                       ELSE Append(@, saved.def)])

addStub(w, imposterId, stub, index) ==
    IF ~IsSome(getImposter(w, imposterId)) THEN w
    ELSE LET imp == Val(getImposter(w, imposterId))
             saved == saveStubNext(w, imposterId, stub)
             stubs == IF IsSome(index) THEN spliceIn(imp.stubs, Val(index), saved.def)
                      ELSE Append(imp.stubs, saved.def)
         IN saveImposter(saved.w, [imp EXCEPT !.stubs = stubs])

\* deleteStubAtIndex: err is the message of the MissingResourceError thrown.
noStubAt(w, imposterId, index) ==
    /\ IsSome(getImposter(w, imposterId))
    /\ ~(index >= 0 /\ index < Len(Val(getImposter(w, imposterId)).stubs))

\* deleteStubAtIndex that takes the stub out of the sequence and keeps its
\* records.
deleteStubAtIndexOnly(w, imposterId, index) ==
    IF ~IsSome(getImposter(w, imposterId)) THEN [w |-> w, err |-> None]
    ELSE IF noStubAt(w, imposterId, index)
    THEN [w |-> w, err |-> Some(<<"no stub at index", index>>)]
    ELSE [w |-> saveImposter(w, [Val(getImposter(w, imposterId)) EXCEPT !.stubs = spliceOut(@, index)]),
          err |-> None]

deleteStubAtIndex(w, imposterId, index) ==
    IF ~IsSome(getImposter(w, imposterId)) THEN [w |-> w, err |-> None]
    ELSE IF noStubAt(w, imposterId, index)
    THEN [w |-> w, err |-> Some(<<"no stub at index", index>>)]
    ELSE LET imp == Val(getImposter(w, imposterId))
             deletedStub == imp.stubs[index + 1]
             w1 == deleteStub(w, imposterId, deletedStub.meta.id)
         IN [w |-> saveImposter(w1, [imp EXCEPT !.stubs = spliceOut(@, index)]),
             err |-> None]

\* The loop of overwriteAllStubs: each stub saved and awaited in turn.
RECURSIVE saveStubsInTurn(_, _, _, _)
saveStubsInTurn(w, imposterId, stubs, defs) ==
    IF stubs = <<>> THEN [w |-> w, defs |-> defs]
    ELSE LET saved == saveStubNext(w, imposterId, Head(stubs))
         IN saveStubsInTurn(saved.w, imposterId, Tail(stubs), Append(defs, saved.def))

\* overwriteAllStubs that leaves the records of the replaced stubs.
overwriteAllStubsOnly(w, imposterId, stubs) ==
    IF ~IsSome(getImposter(w, imposterId)) THEN w
    ELSE LET saved == saveStubsInTurn(w, imposterId, stubs, <<>>)
         IN saveImposter(saved.w, [Val(getImposter(w, imposterId)) EXCEPT !.stubs = saved.defs])

overwriteAllStubs(w, imposterId, stubs) ==
    IF ~IsSome(getImposter(w, imposterId)) THEN w
    ELSE LET imp == Val(getImposter(w, imposterId))
             w1 == deleteStubs(w, imposterId, imp.stubs)
             saved == saveStubsInTurn(w1, imposterId, stubs, <<>>)
         IN saveImposter(saved.w, [imp EXCEPT !.stubs = saved.defs])

\* addResponse: ret is the meta it returns, None for null.
addResponse(w, imposterId, stubId, resp) ==
    LET m == getMeta(w, imposterId, stubId)
    IN IF ~IsSome(m) THEN [w |-> w, ret |-> None]
       ELSE LET responseId == generateId("response", w.idCounter + 1)
                w1 == [w EXCEPT !.response = setObject(@, responseId, resp),
                                !.idCounter = @ + 1]
                responseIndex == Len(Val(m).responseIds)
                m1 == [Val(m) EXCEPT
                          !.responseIds = Append(@, responseId),
                          !.orderWithRepeats = pushRepeats(@, responseIndex, 0, repeatsFor(resp))]
            IN [w |-> saveMeta(w1, imposterId, stubId, m1), ret |-> Some(m1)]

\* getNextResponse: threw when there is no meta; ret is the response config,
\* None for null.  An index that is NaN reads `undefined` from either array,
\* and hget of the field 'undefined' finds nothing.
getNextResponse(w, imposterId, stubId) ==
    LET m == getMeta(w, imposterId, stubId)
    IN IF ~IsSome(m) THEN [w |-> w, ret |-> None, threw |-> TRUE]
       ELSE LET maxIndex == Len(Val(m).orderWithRepeats)
                at == JsMod(ToNumber(Val(m).nextIndex), maxIndex)
                responseIndex == IF at = JsNaN THEN None
                                 ELSE Some(Val(m).orderWithRepeats[at + 1])
                responseId == IF IsSome(responseIndex)
                                 /\ Val(responseIndex) < Len(Val(m).responseIds)
                              THEN Some(Val(m).responseIds[Val(responseIndex) + 1])
                              ELSE None
                m1 == [Val(m) EXCEPT
                          !.nextIndex = JsMod(ToNumber(Val(m).nextIndex) + 1, maxIndex)]
                w1 == saveMeta(w, imposterId, stubId, m1)
            IN [w |-> w1, ret |-> getResponse(w1, responseId), threw |-> FALSE]

\* getResponses: the stored responses of the ids the meta lists, nulls dropped.
RECURSIVE readResponses(_, _)
readResponses(w, responseIds) ==
    IF responseIds = <<>> THEN <<>>
    ELSE getObject(w.response, Head(responseIds)) \o readResponses(w, Tail(responseIds))

\* getResponses that starts at the response the cursor stands on.
getResponsesFromCursor(w, imposterId, stubId) ==
    IF ~IsSome(getMeta(w, imposterId, stubId)) THEN <<>>
    ELSE LET m == Val(getMeta(w, imposterId, stubId))
             n == Len(m.responseIds)
             k == IF n = 0 THEN 0 ELSE ToNumber(m.nextIndex) % n
         IN readResponses(w, SubSeq(m.responseIds, k + 1, n) \o SubSeq(m.responseIds, 1, k))

getResponses(w, imposterId, stubId) ==
    IF ~IsSome(getMeta(w, imposterId, stubId)) THEN <<>>
    ELSE readResponses(w, Val(getMeta(w, imposterId, stubId)).responseIds)

getMatches(w, stubId) == getObject(w.matches, stubId)
addMatch(w, stubId, match) == [w EXCEPT !.matches = pushToObject(@, stubId, match)]
addRequest(w, imposterId, request) == [w EXCEPT !.requests = pushToObject(@, imposterId, request)]
getRequests(w, imposterId) ==
    IF imposterId \in DOMAIN w.requests THEN w.requests[imposterId] ELSE <<>>
deleteRequests(w, imposterId) == [w EXCEPT !.requests = delObject(@, imposterId)]

\* stubRepository.addRequest: the request cloned, with timestamp: new Date().toJSON().
RecordedRequest(request, now) == [request |-> request, timestamp |-> now]

\* MbRequest as addRequest is given it, and the times new Date() reads.
MbRequests == {"a", "b"}
Times == {1, 2}

\* hincrby creates the field at 0 before adding.
incrementRequestCounter(w, imposterId) ==
    [w EXCEPT !.requestCounter =
        setObject(@, imposterId, (IF imposterId \in DOMAIN @ THEN @[imposterId] ELSE 0) + 1)]
getRequestCounter(w, imposterId) == getObject(w.requestCounter, imposterId)

\* stubRepository.getNumberOfRequests: getRequestCounter(imposterId) || 0
getNumberOfRequests(w, imposterId) ==
    IF IsSome(getRequestCounter(w, imposterId)) THEN Val(getRequestCounter(w, imposterId)) ELSE 0

----------------------------------------------------------------------------
\* stubRepository(imposterId, imposterStorage): the stub view of one imposter.

count(w, imposterId) == Len(getStubs(w, imposterId))

\* stubs[i].predicates || []
predicatesOf(stubDefinition) ==
    IF IsSome(stubDefinition.predicates) THEN Val(stubDefinition.predicates) ELSE <<>>

\* The loop of first() from index i (0-based): the index of the match, or None.
RECURSIVE firstFrom(_, _, _)
firstFrom(stubs, filter, i) ==
    IF i >= Len(stubs) THEN None
    ELSE IF ApplyFilter(filter, predicatesOf(stubs[i + 1])) THEN Some(i)
    ELSE firstFrom(stubs, filter, i + 1)

\* first() that scans from the top whatever startIndex says.
firstFromTheTop(w, imposterId, filter, startIndex) ==
    LET stubs == getStubs(w, imposterId)
        found == firstFrom(stubs, filter, 0)
    IN IF IsSome(found)
       THEN [port |-> imposterId, success |-> TRUE,
             stubId |-> Some(stubs[Val(found) + 1].meta.id),
             predicates |-> stubs[Val(found) + 1].predicates,
             matchedAt |-> found, responded |-> FALSE]
       ELSE [port |-> imposterId, success |-> FALSE, stubId |-> None,
             predicates |-> None, matchedAt |-> None, responded |-> FALSE]

\* first(): { success, stub: wrap(stub) }.  wrap keeps the stub's id for its
\* closures and exposes the cloned predicates; matchedAt records where the scan
\* stopped, responded whether a response of the handle's nextResponse() is at
\* hand.
first(w, imposterId, filter, startIndex) ==
    LET stubs == getStubs(w, imposterId)
        found == firstFrom(stubs, filter, startIndex)
    IN IF IsSome(found)
       THEN [port |-> imposterId, success |-> TRUE,
             stubId |-> Some(stubs[Val(found) + 1].meta.id),
             predicates |-> stubs[Val(found) + 1].predicates,
             matchedAt |-> found, responded |-> FALSE]
       ELSE [port |-> imposterId, success |-> FALSE, stubId |-> None,
             predicates |-> None, matchedAt |-> None, responded |-> FALSE]

\* toJSON(options): per stub the definition without meta, its responses, and
\* with options.debug the match list when there is one.
RECURSIVE projectStubs(_, _, _, _)
projectStubs(w, imposterId, stubs, debug) ==
    IF stubs = <<>> THEN <<>>
    ELSE <<[predicates |-> Head(stubs).predicates,
            responses |-> getResponses(w, imposterId, Head(stubs).meta.id),
            matches |-> IF debug THEN getMatches(w, Head(stubs).meta.id) ELSE None]>>
         \o projectStubs(w, imposterId, Tail(stubs), debug)

toJSON(w, imposterId, debug) ==
    IF ~IsSome(getImposter(w, imposterId)) THEN <<>>
    ELSE projectStubs(w, imposterId, Val(getImposter(w, imposterId)).stubs, debug)

isRecordedResponse(resp) == resp.proxyResponseTime

RECURSIVE filterResponses(_)
filterResponses(responses) ==
    IF responses = <<>> THEN <<>>
    ELSE (IF isRecordedResponse(Head(responses)) THEN <<>> ELSE <<Head(responses)>>)
         \o filterResponses(Tail(responses))

\* nonProxyStubs that keeps the stubs left without a response.
RECURSIVE stubsFiltered(_)
stubsFiltered(allStubs) ==
    IF allStubs = <<>> THEN <<>>
    ELSE <<Stub(Head(allStubs).predicates, Some(filterResponses(Head(allStubs).responses)))>>
         \o stubsFiltered(Tail(allStubs))

\* allStubs with the recorded responses filtered out, then the stubs that keep
\* a response, as the Stub objects overwriteAll receives.
RECURSIVE nonProxyStubs(_)
nonProxyStubs(allStubs) ==
    IF allStubs = <<>> THEN <<>>
    ELSE LET kept == filterResponses(Head(allStubs).responses)
         IN (IF Len(kept) > 0 THEN <<Stub(Head(allStubs).predicates, Some(kept))>> ELSE <<>>)
            \o nonProxyStubs(Tail(allStubs))

deleteSavedProxyResponses(w, imposterId) ==
    overwriteAllStubs(w, imposterId, nonProxyStubs(toJSON(w, imposterId, FALSE)))

----------------------------------------------------------------------------
\* wrap(stub, imposterId, imposterStorage): the closures of a matched stub.

\* nextResponse: the cursor step, then the request counter; config is what
\* createResponse spreads into the result, whose stubIndex() stays bound to
\* stubId.
\* nextResponse that counts the request before it asks for the response.
nextResponseCountedFirst(w, imposterId, stubId) ==
    LET counted == incrementRequestCounter(w, imposterId)
        next == getNextResponse(counted, imposterId, stubId)
    IN IF next.threw THEN [w |-> counted, ret |-> None, threw |-> TRUE]
       ELSE [w |-> next.w,
             ret |-> Some(IF IsSome(next.ret) THEN Val(next.ret) ELSE EmptyResponse),
             threw |-> FALSE]

nextResponse(w, imposterId, stubId) ==
    LET next == getNextResponse(w, imposterId, stubId)
    IN IF next.threw THEN [w |-> w, ret |-> None, threw |-> TRUE]
       ELSE [w |-> incrementRequestCounter(next.w, imposterId),
             ret |-> Some(IF IsSome(next.ret) THEN Val(next.ret) ELSE EmptyResponse),
             threw |-> FALSE]

\* The loop of getStubIndex from index i (0-based); 0 when the id is not found.
RECURSIVE indexOfStub(_, _, _)
indexOfStub(stubs, stubId, i) ==
    IF i >= Len(stubs) THEN 0
    ELSE IF stubs[i + 1].meta.id = stubId THEN i
    ELSE indexOfStub(stubs, stubId, i + 1)

\* getStubIndex that answers with the head of the sequence.
getStubIndexOfHead(w, imposterId, stubId) ==
    IF ~IsSome(getImposter(w, imposterId)) THEN [ret |-> None, threw |-> TRUE]
    ELSE [ret |-> Some(0), threw |-> FALSE]

\* getStubIndex: throws when the imposter is gone.
getStubIndex(w, imposterId, stubId) ==
    IF ~IsSome(getImposter(w, imposterId)) THEN [ret |-> None, threw |-> TRUE]
    ELSE [ret |-> Some(indexOfStub(Val(getImposter(w, imposterId)).stubs, stubId, 0)),
          threw |-> FALSE]

----------------------------------------------------------------------------
\* create(config, logger): the repository facade.

\* add() starts saveStubMetaAndResponses for every stub before it awaits any
\* (stubs.map, then Promise.all).  Each call draws the stub's id and the id of
\* its first response before its first await; the replies of the one redis
\* connection come back in order, so the calls then take turns drawing the id
\* of their next response.
RECURSIVE sumTo(_, _)
sumTo(f, n) == IF n = 0 THEN 0 ELSE f[n] + sumTo(f, n - 1)

responseCount(stubs, t) == Len(responsesOf(stubs[t]))
firstRound(stubs) == [t \in 1..Len(stubs) |-> IF responseCount(stubs, t) >= 1 THEN 2 ELSE 1]
laterRound(stubs, r) == Cardinality({t \in 1..Len(stubs) : responseCount(stubs, t) >= r})

stubNumber(c, stubs, s) == c + sumTo(firstRound(stubs), s - 1) + 1
responseNumber(c, stubs, s, j) ==
    IF j = 1 THEN stubNumber(c, stubs, s) + 1
    ELSE c + sumTo(firstRound(stubs), Len(stubs))
           + sumTo([r \in 1..(j - 1) |-> IF r = 1 THEN 0 ELSE laterRound(stubs, r)], j - 1)
           + Cardinality({t \in 1..(s - 1) : responseCount(stubs, t) >= j}) + 1

RECURSIVE saveStubsTogether(_, _, _, _, _, _)
saveStubsTogether(w, imposterId, stubs, c, s, defs) ==
    IF s > Len(stubs) THEN [w |-> w, defs |-> defs]
    ELSE LET saved == saveStubMetaAndResponses(w, imposterId, stubs[s],
                          stubNumber(c, stubs, s),
                          [j \in 1..responseCount(stubs, s) |-> responseNumber(c, stubs, s, j)])
         IN saveStubsTogether(saved.w, imposterId, stubs, c, s + 1, Append(defs, saved.def))

\* imposter.creationRequest.stubs || []
stubsOf(config) == IF IsSome(config.stubs) THEN Val(config.stubs) ELSE <<>>

add(w, config) ==
    LET saved == saveStubsTogether(w, config.port, stubsOf(config), w.idCounter, 1, <<>>)
    IN [w |-> saveImposter(saved.w, [port |-> config.port, protocol |-> config.protocol,
                                     stubs |-> saved.defs]),
        defs |-> saved.defs]

\* get(): null without a root record; rehydrate reads imposterFns[id] and
\* throws when the process holds no entry for the port.
get(w, fns, id) ==
    IF ~IsSome(getImposter(w, id)) THEN [ret |-> None, threw |-> FALSE]
    ELSE IF id \notin fns THEN [ret |-> None, threw |-> TRUE]
    ELSE [ret |-> Some([port |-> Val(getImposter(w, id)).port,
                        protocol |-> Val(getImposter(w, id)).protocol,
                        stubs |-> toJSON(w, id, FALSE)]),
          threw |-> FALSE]

\* shutdown(id): the entry leaves the table (its stop() is then called).
shutdown(fns, id) == fns \ {id}

\* del() that deletes the records and leaves the table alone.
delWithoutShutdown(w, fns, id) ==
    LET got == get(w, fns, id)
    IN IF got.threw THEN [w |-> w, fns |-> fns, ret |-> None, threw |-> TRUE]
       ELSE [w |-> IF IsSome(got.ret) THEN deleteImposter(w, id) ELSE w,
             fns |-> fns, ret |-> got.ret, threw |-> FALSE]

\* del(): get, then shutdown together with deleteImposter when get found one.
del(w, fns, id) ==
    LET got == get(w, fns, id)
    IN IF got.threw THEN [w |-> w, fns |-> fns, ret |-> None, threw |-> TRUE]
       ELSE [w |-> IF IsSome(got.ret) THEN deleteImposter(w, id) ELSE w,
             fns |-> shutdown(fns, id), ret |-> got.ret, threw |-> FALSE]

\* An id as a caller passes it: ImposterId is a number, and a string reaches
\* exists() and shutdown() as well.
Num(n) == [type |-> "number", number |-> n, string |-> ""]
Str(str) == [type |-> "string", number |-> 0, string |-> str]

\* String(id)
String(id) == IF id.type = "number" THEN ToString(id.number) ELSE id.string

\* Object.keys(imposterFns): the table is keyed by String(imposter.port).
keys(fns) == {ToString(p) : p \in fns}

\* exists that looks the id up as it was passed, a number.
existsOfNumber(fns, id) == id.type = "number" /\ id.number \in fns

\* exists(id): Object.keys(imposterFns).indexOf(String(id)) >= 0
exists(fns, id) == String(id) \in keys(fns)

\* Object.keys lists integer keys in ascending order.
RECURSIVE ascending(_)
ascending(fns) ==
    IF fns = {} THEN <<>>
    ELSE LET least == CHOOSE p \in fns : \A q \in fns : p <= q
         IN <<least>> \o ascending(fns \ {least})

\* all() that lists every imposter of the store.
allOfTheStore(w, fns, isClosed) ==
    IF isClosed THEN [ret |-> <<>>, threw |-> FALSE]
    ELSE [ret |-> [i \in 1..Cardinality(DOMAIN w.imposter) |->
                     get(w, DOMAIN w.imposter, ascending(DOMAIN w.imposter)[i]).ret],
          threw |-> FALSE]

\* all(): [] on a closed client, else get() of every key of the table; a get
\* that rejects rejects the whole.
all(w, fns, isClosed) ==
    IF isClosed THEN [ret |-> <<>>, threw |-> FALSE]
    ELSE [ret |-> [i \in 1..Cardinality(fns) |-> get(w, fns, ascending(fns)[i]).ret],
          threw |-> \E p \in fns : get(w, fns, p).threw]

\* The payload of a message published with `undefined`.
NoPayload == 0

\* deleteAllImposters that leaves the metas of the stubs behind.
deleteAllImpostersButMeta(w) ==
    publish([w EXCEPT !.imposter = NoFields, !.matches = NoFields,
                      !.requestCounter = NoFields, !.requests = NoFields,
                      !.response = NoFields],
            "all_imposters_delete", NoPayload)

\* deleteAllImposters: the six hashes are deleted whole.
deleteAllImposters(w) ==
    publish([w EXCEPT !.imposter = NoFields, !.matches = NoFields, !.meta = NoFields,
                      !.requestCounter = NoFields, !.requests = NoFields,
                      !.response = NoFields],
            "all_imposters_delete", NoPayload)

\* deleteAll(): shutdown of every key of the table, then deleteAllImposters.
deleteAll(w, fns) == [w |-> deleteAllImposters(w), fns |-> {}, stopped |-> fns]

\* loadImposter that takes an imposter whatever its protocol.
loadImposterOfAnyProtocol(fns, imposterConfig, protocols, built) ==
    IF built THEN fns \cup {imposterConfig.port} ELSE fns

\* loadImposter: the imposter enters the table when its protocol is among
\* protocols and protocol.createImposterFrom resolves (built).
loadImposter(fns, imposterConfig, protocols, built) ==
    IF imposterConfig.protocol \in protocols /\ built
    THEN fns \cup {imposterConfig.port}
    ELSE fns

\* getAllImposters: hvals of the hash.
getAllImposters(w) == {w.imposter[id] : id \in DOMAIN w.imposter}

\* loadAll(protocols): every stored imposter goes through loadImposter;
\* failing are the ports whose createImposterFrom rejects.
loadAll(w, fns, protocols, failing) ==
    fns \cup {imp.port : imp \in {i \in getAllImposters(w) :
                                     loadImposter({}, i, protocols, i.port \notin failing) /= {}}}

Channels == {"imposter_change", "imposter_delete", "all_imposters_delete"}

\* onImposterChange: shutdown of a tracked imposter, then the stored record,
\* when there is one, goes through loadImposter.
onImposterChange(w, fns, protocols, imposterId, built) ==
    LET torn == shutdown(fns, imposterId)
    IN [fns |-> IF IsSome(getImposter(w, imposterId))
                THEN loadImposter(torn, Val(getImposter(w, imposterId)), protocols, built)
                ELSE torn,
        stopped |-> fns \cap {imposterId}]

\* onImposterDelete: shutdown of a tracked imposter.
onImposterDelete(fns, imposterId) ==
    [fns |-> shutdown(fns, imposterId), stopped |-> fns \cap {imposterId}]

\* onAllImpostersDelete: shutdown of every key of the table.
onAllImpostersDelete(fns) == [fns |-> {}, stopped |-> fns]

----------------------------------------------------------------------------
\* The state machine: one process, one call at a time.

\* What the latest call was and how it ended: ret is what its promise resolved
\* to, threw whether it rejected, published the messages it sent.
Call(op, port, ret, threw, published) ==
    [op |-> op, port |-> port, ret |-> ret, threw |-> threw, published |-> published]

\* A message as the subscriber connection receives it: _publish wraps the
\* payload with the _clientId of the publishing client.
Message(clientId, channel, payload) ==
    [clientId |-> clientId, channel |-> channel, payload |-> payload]

\* The messages of a call reach the subscriber of this process on the channels
\* its connection is subscribed to, in the order they were published.
RECURSIVE received(_, _, _, _)
received(box, subs, clientId, published) ==
    IF published = <<>> THEN box
    ELSE received(IF Head(published)[1] \in subs
                  THEN Append(box, Message(clientId, Head(published)[1], Head(published)[2]))
                  ELSE box,
                  subs, clientId, Tail(published))

\* getClient(): a client that was stopped connects again before the command.
Connect == closed' = FALSE

\* The store a call leaves behind.
Commit(w) ==
    /\ Connect
    /\ inbox' = received(inbox, listening, "self", w.published)
    /\ Len(inbox') <= MaxInbox
    /\ imposter' = w.imposter
    /\ meta' = w.meta
    /\ response' = w.response
    /\ matches' = w.matches
    /\ requests' = w.requests
    /\ requestCounter' = w.requestCounter
    /\ idCounter' = w.idCounter

storeVars == <<imposter, meta, response, matches, requests, requestCounter, idCounter>>

\* A call that only reads the store, and one that reaches no store client.
Read == Connect /\ UNCHANGED <<storeVars, inbox>>
Untouched == UNCHANGED <<storeVars, closed, inbox>>

\* The calls in flight: what the process holds between two awaits.
flightVars == <<overwriting, responding, pushing, errors, calls, tracked, instances, handlers,
               wire, acks, unsubscribed, epoch, otherIdCounter, issued>>

\* What only the lifecycle calls of the facade change.
lifecycleVars == <<subscriptions, listening, stopped, pc, appProtocols, flightVars>>

\* history: for every stub whose meta is stored, the responses it was created
\* with and the number of nextResponse() calls served since; undisturbed is
\* FALSE once addResponse has touched the stub.
created(h, defs, stubs) ==
    [id \in DOMAIN h \cup {defs[i].meta.id : i \in 1..Len(defs)} |->
        IF \E i \in 1..Len(defs) : defs[i].meta.id = id
        THEN [declared |-> responsesOf(stubs[CHOOSE i \in 1..Len(defs) : defs[i].meta.id = id]),
              calls |-> 0, undisturbed |-> TRUE]
        ELSE h[id]]

stored(h, w) ==
    [id \in {i \in DOMAIN h : \E key \in DOMAIN w.meta : key[2] = i} |-> h[id]]

Init ==
    /\ imposter = NoFields
    /\ meta = NoFields
    /\ response = NoFields
    /\ matches = NoFields
    /\ requests = NoFields
    /\ requestCounter = NoFields
    /\ idCounter = 0
    /\ imposterFns = {}
    /\ closed = FALSE
    /\ subscriptions = {}
    /\ listening = {}
    /\ wire = <<>>
    /\ acks = <<>>
    /\ unsubscribed = {}
    /\ epoch = 0
    /\ otherIdCounter = [storage \in OtherStorages |-> 0]
    /\ issued = {}
    /\ inbox = <<>>
    /\ stopped = {}
    /\ pc = "idle"
    /\ appProtocols = {}
    /\ overwriting = None
    /\ responding = None
    /\ pushing = NoFields
    /\ errors = <<>>
    /\ calls = NoFields
    /\ tracked = NoFields
    /\ instances = <<>>
    /\ handlers = NoFields
    /\ handle = None
    /\ history = NoFields
    /\ last = Call("create", 0, None, FALSE, <<>>)

\* repository.add(imposter)
ImposterAdd(config) ==
    /\ idCounter + idsNeededAll(stubsOf(config)) <= MaxIdCounter
    /\ LET done == add(Store, config)
       IN /\ Commit(done.w)
          /\ imposterFns' = imposterFns \cup {config.port}
          /\ history' = stored(created(history, done.defs, stubsOf(config)), done.w)
          /\ last' = Call("add", config.port, None, FALSE, done.w.published)
    /\ stopped' = {}
    /\ UNCHANGED <<handle, subscriptions, listening, pc, appProtocols, flightVars>>

\* repository.get(id)
ImposterGet(p) ==
    /\ LET got == get(Store, imposterFns, p)
       IN last' = Call("get", p, got.ret, got.threw, <<>>)
    /\ Read
    /\ UNCHANGED <<imposterFns, handle, history, lifecycleVars>>

\* repository.del(id)
ImposterDel(p) ==
    /\ LET done == del(Store, imposterFns, p)
       IN /\ Commit(done.w)
          /\ imposterFns' = done.fns
          /\ stopped' = imposterFns \ done.fns
          /\ history' = stored(history, done.w)
          /\ last' = Call("del", p, done.ret, done.threw, done.w.published)
    /\ UNCHANGED <<handle, subscriptions, listening, pc, appProtocols, flightVars>>

\* stubsFor(id).count()
StubsCount(p) ==
    /\ last' = Call("count", p, count(Store, p), FALSE, <<>>)
    /\ Read
    /\ UNCHANGED <<imposterFns, handle, history, lifecycleVars>>

\* stubsFor(id).first(filter, startIndex)
StubsFirst(p, filter, startIndex) ==
    /\ handle' = Some(first(Store, p, filter, startIndex))
    /\ last' = Call("first", p, Val(handle').success, FALSE, <<>>)
    /\ Read
    /\ UNCHANGED <<imposterFns, history, lifecycleVars>>

\* stubsFor(id).add(stub) and insertAtIndex(stub, index): addStub without and
\* with an index.
StubsInsert(op, p, stub, index) ==
    /\ idCounter + idsNeeded(stub) <= MaxIdCounter
    /\ count(Store, p) < MaxStubs
    /\ LET done == addStub(Store, p, stub, index)
           defs == getStubs(done, p)
           new  == {i \in 1..Len(defs) : defs[i].meta.id \notin DOMAIN history}
       IN /\ Commit(done)
          /\ history' = stored(created(history,
                                       [i \in 1..Cardinality(new) |-> defs[CHOOSE j \in new : TRUE]],
                                       [i \in 1..Cardinality(new) |-> stub]), done)
          /\ last' = Call(op, p, None, FALSE, done.published)
    /\ UNCHANGED <<imposterFns, handle, lifecycleVars>>

StubsAdd(p, stub) == StubsInsert("stubs.add", p, stub, None)

StubsInsertAtIndex(p, stub, index) == StubsInsert("insertAtIndex", p, stub, Some(index))

\* stubsFor(id).deleteAtIndex(index)
StubsDeleteAtIndex(p, index) ==
    /\ LET done == deleteStubAtIndex(Store, p, index)
       IN /\ Commit(done.w)
          /\ history' = stored(history, done.w)
          /\ last' = Call("deleteAtIndex", p, done.err, IsSome(done.err), done.w.published)
    /\ UNCHANGED <<imposterFns, handle, lifecycleVars>>

\* stubsFor(id).overwriteAtIndex(stub, index): deleteAtIndex, then, when that
\* did not reject, insertAtIndex.
StubsOverwriteAtIndex(p, stub, index) ==
    /\ idCounter + idsNeeded(stub) <= MaxIdCounter
    /\ LET deleted == deleteStubAtIndex(Store, p, index)
           done == IF IsSome(deleted.err) THEN deleted.w
                   ELSE addStub(deleted.w, p, stub, Some(index))
           defs == getStubs(done, p)
           new  == {i \in 1..Len(defs) : defs[i].meta.id \notin DOMAIN history}
       IN /\ Commit(done)
          /\ history' = stored(created(history,
                                       [i \in 1..Cardinality(new) |-> defs[CHOOSE j \in new : TRUE]],
                                       [i \in 1..Cardinality(new) |-> stub]), done)
          /\ last' = Call("overwriteAtIndex", p, deleted.err,
                          IsSome(deleted.err), done.published)
    /\ UNCHANGED <<imposterFns, handle, lifecycleVars>>

\* overwriteAtIndex(stub, index) up to its first await: deleteAtIndex(index)
\* has committed.  When it rejects, overwriteAtIndex rejects and is over;
\* otherwise the call is in flight, and `before` keeps the sequence it found.
OverwriteDeletes(p, stub, index) ==
    /\ ~IsSome(overwriting)
    /\ idCounter + idsNeeded(stub) <= MaxIdCounter
    /\ LET deleted == deleteStubAtIndex(Store, p, index)
       IN /\ Commit(deleted.w)
          /\ history' = stored(history, deleted.w)
          /\ IF IsSome(deleted.err)
             THEN /\ overwriting' = None
                  /\ last' = Call("overwriteAtIndex", p, deleted.err, TRUE, deleted.w.published)
             ELSE /\ overwriting' = Some([port |-> p, stub |-> stub, index |-> index,
                                          before |-> getStubs(Store, p)])
                  /\ last' = Call("overwriteAtIndex deleted", p, None, FALSE, deleted.w.published)
    /\ UNCHANGED <<calls, tracked, instances, handlers, pushing, errors, imposterFns, handle, subscriptions, listening, stopped, pc, appProtocols, responding, wire, acks, unsubscribed,
                   epoch, otherIdCounter, issued>>

\* The rest of overwriteAtIndex that appends instead of inserting.
OverwriteInsertsAtEnd ==
    /\ IsSome(overwriting)
    /\ LET o == Val(overwriting)
           done == addStub(Store, o.port, o.stub, None)
           defs == getStubs(done, o.port)
           new  == {i \in 1..Len(defs) : defs[i].meta.id \notin DOMAIN history}
       IN /\ Commit(done)
          /\ history' = stored(created(history,
                                       [i \in 1..Cardinality(new) |-> defs[CHOOSE j \in new : TRUE]],
                                       [i \in 1..Cardinality(new) |-> o.stub]), done)
          /\ last' = Call("overwriteAtIndex", o.port, None, FALSE, done.published)
    /\ overwriting' = None
    /\ UNCHANGED <<calls, tracked, instances, handlers, pushing, errors, imposterFns, handle, subscriptions, listening, stopped, pc, appProtocols, responding, wire, acks, unsubscribed,
                   epoch, otherIdCounter, issued>>

\* The rest of overwriteAtIndex: insertAtIndex(stub, index) on the store as it
\* is by then.
OverwriteInserts ==
    /\ IsSome(overwriting)
    /\ LET o == Val(overwriting)
           done == addStub(Store, o.port, o.stub, Some(o.index))
           defs == getStubs(done, o.port)
           new  == {i \in 1..Len(defs) : defs[i].meta.id \notin DOMAIN history}
       IN /\ Commit(done)
          /\ history' = stored(created(history,
                                       [i \in 1..Cardinality(new) |-> defs[CHOOSE j \in new : TRUE]],
                                       [i \in 1..Cardinality(new) |-> o.stub]), done)
          /\ last' = Call("overwriteAtIndex", o.port, None, FALSE, done.published)
    /\ overwriting' = None
    /\ UNCHANGED <<calls, tracked, instances, handlers, pushing, errors, imposterFns, handle, subscriptions, listening, stopped, pc, appProtocols, responding, wire, acks, unsubscribed,
                   epoch, otherIdCounter, issued>>

\* The process ends between the two awaits of overwriteAtIndex: nothing runs
\* the insertAtIndex.
OverwriteAbandoned ==
    /\ IsSome(overwriting)
    /\ overwriting' = None
    /\ last' = Call("overwriteAtIndex abandoned", Val(overwriting).port, None, FALSE, <<>>)
    /\ Untouched
    /\ UNCHANGED <<calls, tracked, instances, handlers, pushing, errors, imposterFns, handle, history, subscriptions, listening, stopped, pc, appProtocols, responding, wire, acks, unsubscribed,
                   epoch, otherIdCounter, issued>>

\* stubsFor(id).overwriteAll(newStubs)
StubsOverwriteAll(p, stubs) ==
    /\ idCounter + idsNeededAll(stubs) <= MaxIdCounter
    /\ LET done == overwriteAllStubs(Store, p, stubs)
           defs == IF IsSome(getImposter(Store, p)) THEN getStubs(done, p) ELSE <<>>
       IN /\ Commit(done)
          /\ history' = stored(created(history, defs, stubs), done)
          /\ last' = Call("overwriteAll", p, None, FALSE, done.published)
    /\ UNCHANGED <<imposterFns, handle, lifecycleVars>>

\* stubsFor(id).deleteSavedProxyResponses()
StubsDeleteSavedProxyResponses(p) ==
    /\ idCounter + idsNeededAll(nonProxyStubs(toJSON(Store, p, FALSE))) <= MaxRewriteIds
    /\ LET before == toJSON(Store, p, FALSE)
           done == deleteSavedProxyResponses(Store, p)
           defs == IF IsSome(getImposter(Store, p)) THEN getStubs(done, p) ELSE <<>>
       IN /\ Commit(done)
          /\ history' = stored(created(history, defs, nonProxyStubs(before)), done)
          /\ last' = Call("deleteSavedProxyResponses", p, None, FALSE, done.published)
    /\ UNCHANGED <<imposterFns, handle, lifecycleVars>>

\* stubsFor(id).addRequest(request)
StubsAddRequest(p) ==
    /\ Len(getRequests(Store, p)) < MaxRequestLog
    /\ Commit(addRequest(Store, p, "request"))
    /\ last' = Call("addRequest", p, None, FALSE, <<>>)
    /\ UNCHANGED <<imposterFns, handle, history, lifecycleVars>>

\* addRequest that puts the request in front of the list.
StubsLogRequestInFront(p, request, now) ==
    /\ Len(getRequests(Store, p)) < MaxLogged
    /\ Commit([Store EXCEPT !.requests =
                  setObject(@, p, <<RecordedRequest(request, now)>> \o getRequests(Store, p))])
    /\ last' = Call("addRequest", p, request, FALSE, <<>>)
    /\ UNCHANGED <<imposterFns, handle, history, lifecycleVars>>

\* stubsFor(id).addRequest(request) at the time now, awaited.
StubsLogRequest(p, request, now) ==
    /\ Len(getRequests(Store, p)) < MaxLogged
    /\ Commit(addRequest(Store, p, RecordedRequest(request, now)))
    /\ last' = Call("addRequest", p, request, FALSE, <<>>)
    /\ UNCHANGED <<imposterFns, handle, history, lifecycleVars>>

\* stubsFor(id).loadRequests()
StubsLoadRequests(p) ==
    /\ last' = Call("loadRequests", p, getRequests(Store, p), FALSE, <<>>)
    /\ Read
    /\ UNCHANGED <<imposterFns, handle, history, lifecycleVars>>

\* stubsFor(id).deleteSavedRequests()
StubsDeleteSavedRequests(p) ==
    /\ Commit(deleteRequests(Store, p))
    /\ last' = Call("deleteSavedRequests", p, None, FALSE, <<>>)
    /\ UNCHANGED <<imposterFns, handle, history, lifecycleVars>>

\* stub.nextResponse() on the handle of the latest first(): the no-op handle
\* resolves to { is: {}, stubIndex } and touches nothing.
served(h, stubId) ==
    IF stubId \in DOMAIN h THEN [h EXCEPT ![stubId].calls = @ + 1] ELSE h

HandleNextResponse ==
    /\ IsSome(handle)
    /\ LET h == Val(handle)
       IN IF ~h.success
          THEN /\ last' = Call("nextResponse", h.port, Some(EmptyResponse), FALSE, <<>>)
               /\ handle' = Some([h EXCEPT !.responded = TRUE])
               /\ Untouched
               /\ UNCHANGED history
          ELSE /\ IsSome(getRequestCounter(Store, h.port))
                    => Val(getRequestCounter(Store, h.port)) < MaxRequests
               /\ LET done == nextResponse(Store, h.port, Val(h.stubId))
                  IN /\ Commit(done.w)
                     /\ history' = IF done.threw THEN history ELSE served(history, Val(h.stubId))
                     /\ handle' = Some([h EXCEPT !.responded = @ \/ ~done.threw])
                     /\ last' = Call("nextResponse", h.port, done.ret, done.threw, <<>>)
    /\ UNCHANGED <<imposterFns, lifecycleVars>>

\* stub.nextResponse() of a matched handle up to its second await:
\* getNextResponse has moved the cursor, or has rejected and the call is over.
NextResponseReads ==
    /\ IsSome(handle) /\ Val(handle).success
    /\ ~IsSome(responding)
    /\ LET h == Val(handle)
           next == getNextResponse(Store, h.port, Val(h.stubId))
       IN /\ Commit(next.w)
          /\ IF next.threw
             THEN /\ responding' = None
                  /\ last' = Call("nextResponse", h.port, None, TRUE, <<>>)
             ELSE /\ responding' = Some([port |-> h.port, stubId |-> Val(h.stubId), ret |-> next.ret])
                  /\ last' = Call("nextResponse reads", h.port, None, FALSE, <<>>)
    /\ UNCHANGED <<calls, tracked, instances, handlers, pushing, errors, imposterFns, handle, history, subscriptions, listening, stopped, pc, appProtocols, overwriting, wire, acks, unsubscribed,
                   epoch, otherIdCounter, issued>>

\* The rest of that nextResponse(): incrementRequestCounter, then the response.
NextResponseCounts ==
    /\ IsSome(responding)
    /\ getNumberOfRequests(Store, Val(responding).port) < MaxRequests
    /\ LET r == Val(responding)
       IN /\ Commit(incrementRequestCounter(Store, r.port))
          /\ history' = served(history, r.stubId)
          /\ last' = Call("nextResponse", r.port,
                          Some(IF IsSome(r.ret) THEN Val(r.ret) ELSE EmptyResponse), FALSE, <<>>)
    /\ responding' = None
    /\ UNCHANGED <<calls, tracked, instances, handlers, pushing, errors, imposterFns, handle, subscriptions, listening, stopped, pc, appProtocols, overwriting, wire, acks, unsubscribed,
                   epoch, otherIdCounter, issued>>

\* stubsFor(id).getNumberOfRequests()
StubsGetNumberOfRequests(p) ==
    /\ last' = Call("getNumberOfRequests", p, getNumberOfRequests(Store, p), FALSE, <<>>)
    /\ Read
    /\ UNCHANGED <<imposterFns, handle, history, lifecycleVars>>

\* stub.addResponse(response) on the handle of the latest first().
HandleAddResponse(resp) ==
    /\ IsSome(handle)
    /\ idCounter < MaxIdCounter
    /\ LET h == Val(handle)
       IN IF ~h.success
          THEN /\ last' = Call("addResponse", h.port, None, FALSE, <<>>)
               /\ Untouched
               /\ UNCHANGED history
          ELSE LET done == addResponse(Store, h.port, Val(h.stubId), resp)
               IN /\ Commit(done.w)
                  /\ history' = IF IsSome(done.ret) /\ Val(h.stubId) \in DOMAIN history
                                THEN [history EXCEPT ![Val(h.stubId)].undisturbed = FALSE]
                                ELSE history
                  /\ last' = Call("addResponse", h.port, done.ret, FALSE, <<>>)
    /\ UNCHANGED <<imposterFns, handle, lifecycleVars>>

\* recordMatch that files the match of the no-op handle under its stub id '-'.
HandleRecordMatchOfAnyStub ==
    /\ IsSome(handle)
    /\ LET h == Val(handle)
           stubId == IF h.success THEN Val(h.stubId) ELSE generateId("-", 0)
       IN /\ IsSome(getMatches(Store, stubId))
               => Len(Val(getMatches(Store, stubId))) < MaxMatches
          /\ Commit(addMatch(Store, stubId, "match"))
    /\ last' = Call("recordMatch", Val(handle).port, None, FALSE, <<>>)
    /\ UNCHANGED <<imposterFns, handle, history, lifecycleVars>>

\* stub.recordMatch(request, response, responseConfig, processingTime)
HandleRecordMatch ==
    /\ IsSome(handle)
    /\ LET h == Val(handle)
       IN IF ~h.success
          THEN Untouched
          ELSE /\ IsSome(getMatches(Store, Val(h.stubId)))
                    => Len(Val(getMatches(Store, Val(h.stubId)))) < MaxMatches
               /\ Commit(addMatch(Store, Val(h.stubId), "match"))
    /\ last' = Call("recordMatch", Val(handle).port, None, FALSE, <<>>)
    /\ UNCHANGED <<imposterFns, handle, history, lifecycleVars>>

\* response.stubIndex() on the response of the handle's latest nextResponse().
ResponseStubIndex ==
    /\ IsSome(handle)
    /\ Val(handle).responded
    /\ LET h == Val(handle)
           got == IF h.success THEN getStubIndex(Store, h.port, Val(h.stubId))
                  ELSE [ret |-> Some(0), threw |-> FALSE]
       IN /\ last' = Call("stubIndex", h.port, got.ret, got.threw, <<>>)
          /\ IF h.success THEN Read ELSE Untouched
    /\ UNCHANGED <<imposterFns, handle, history, lifecycleVars>>

\* repository.exists(id)
RepoExists(id) ==
    /\ last' = Call("exists", 0, <<id, exists(imposterFns, id)>>, FALSE, <<>>)
    /\ Untouched
    /\ UNCHANGED <<imposterFns, handle, history, lifecycleVars>>

\* repository.all()
RepoAll ==
    /\ LET got == all(Store, imposterFns, closed)
       IN last' = Call("all", 0, got.ret, got.threw, <<>>)
    /\ IF closed \/ imposterFns = {} THEN Untouched ELSE Read
    /\ UNCHANGED <<imposterFns, handle, history, lifecycleVars>>

\* repository.deleteAll()
RepoDeleteAll ==
    /\ LET done == deleteAll(Store, imposterFns)
       IN /\ Commit(done.w)
          /\ imposterFns' = done.fns
          /\ stopped' = done.stopped
          /\ history' = stored(history, done.w)
          /\ last' = Call("deleteAll", 0, None, FALSE, done.w.published)
    /\ UNCHANGED <<handle, subscriptions, listening, pc, appProtocols, flightVars>>

\* repository.loadAll(protocols): start() connects, the stored imposters are
\* loaded, the three channels subscribed.
RepoLoadAll(protocols, failing) ==
    /\ appProtocols' = protocols
    /\ Read
    /\ imposterFns' = loadAll(Store, imposterFns, protocols, failing)
    /\ subscriptions' = Channels
    /\ listening' = Channels
    /\ stopped' = {}
    /\ last' = Call("loadAll", 0, None, FALSE, <<>>)
    /\ UNCHANGED <<pc, flightVars, handle, history>>

\* repository.stopAll() and stopAllSync(), up to the first await: every
\* shutdown has removed its key and called its stop().
RepoStopAll ==
    /\ pc = "idle"
    /\ pc' = "stopAll"
    /\ imposterFns' = {}
    /\ stopped' = imposterFns
    /\ last' = Call("stopAll", 0, None, FALSE, <<>>)
    /\ Untouched
    /\ UNCHANGED <<subscriptions, listening, appProtocols, flightVars, handle, history>>

\* The rest of stopAll(): the three channels unsubscribed, the client stopped.
StopAllSettles ==
    /\ pc = "stopAll"
    /\ pc' = "idle"
    /\ subscriptions' = {}
    /\ listening' = {}
    /\ closed' = TRUE
    /\ last' = Call("stopAll settled", 0, None, FALSE, <<>>)
    /\ UNCHANGED <<storeVars, inbox, imposterFns, stopped, appProtocols, flightVars, handle, history>>

\* The same with a callback that runs the handler for every message.
DeliverToAll(built) ==
    /\ inbox /= <<>>
    /\ inbox' = Tail(inbox)
    /\ LET message == Head(inbox)
           handled == message.channel \in subscriptions
           done == CASE message.channel = "imposter_change" ->
                           onImposterChange(Store, imposterFns, appProtocols,
                                            message.payload, built)
                     [] message.channel = "imposter_delete" ->
                           onImposterDelete(imposterFns, message.payload)
                     [] message.channel = "all_imposters_delete" ->
                           onAllImpostersDelete(imposterFns)
       IN IF handled
          THEN /\ imposterFns' = done.fns
               /\ stopped' = done.stopped
               /\ closed' = IF message.channel = "imposter_change" THEN FALSE ELSE closed
               /\ last' = Call(message.channel, message.payload, None, FALSE, <<>>)
          ELSE /\ built
               /\ last' = Call("ignored", message.payload, None, FALSE, <<>>)
               /\ UNCHANGED <<imposterFns, stopped, closed>>
    /\ UNCHANGED <<storeVars, subscriptions, listening, pc, appProtocols, flightVars, handle, history>>

\* _subscriber.on('message'): the oldest message goes to the callback of its
\* channel, which drops a message of its own client; built tells whether
\* createImposterFrom resolves when the handler reloads.
Deliver(built) ==
    /\ inbox /= <<>>
    /\ inbox' = Tail(inbox)
    /\ LET message == Head(inbox)
           handled == message.channel \in subscriptions /\ message.clientId /= "self"
           done == CASE message.channel = "imposter_change" ->
                           onImposterChange(Store, imposterFns, appProtocols,
                                            message.payload, built)
                     [] message.channel = "imposter_delete" ->
                           onImposterDelete(imposterFns, message.payload)
                     [] message.channel = "all_imposters_delete" ->
                           onAllImpostersDelete(imposterFns)
       IN IF handled
          THEN /\ imposterFns' = done.fns
               /\ stopped' = done.stopped
               /\ closed' = IF message.channel = "imposter_change" THEN FALSE ELSE closed
               /\ last' = Call(message.channel, message.payload, None, FALSE, <<>>)
          ELSE /\ built
               /\ last' = Call("ignored", message.payload, None, FALSE, <<>>)
               /\ UNCHANGED <<imposterFns, stopped, closed>>
    /\ UNCHANGED <<storeVars, subscriptions, listening, pc, appProtocols, flightVars, handle, history>>

\* Another process on the same store: what its ImposterStorage writes, and the
\* messages its client publishes.
CommitPeer(w) ==
    /\ inbox' = received(inbox, listening, "peer", w.published)
    /\ Len(inbox') <= MaxInbox
    /\ imposter' = w.imposter
    /\ meta' = w.meta
    /\ response' = w.response
    /\ matches' = w.matches
    /\ requests' = w.requests
    /\ requestCounter' = w.requestCounter
    /\ history' = stored(history, w)
    /\ UNCHANGED <<idCounter, closed, imposterFns, lifecycleVars, handle, last>>

\* saveImposter of the other process, on a port whose record lists no stub.
PeerSaveImposter(imp) ==
    /\ getStubs(Store, imp.port) = <<>>
    /\ CommitPeer(saveImposter(Store, imp))

\* deleteImposter of the other process.
PeerDeleteImposter(p) ==
    /\ IsSome(getImposter(Store, p))
    /\ CommitPeer(deleteImposter(Store, p))

\* deleteAllImposters of the other process.
PeerDeleteAllImposters ==
    /\ DOMAIN imposter /= {}
    /\ CommitPeer(deleteAllImposters(Store))

\* nextResponse() of the other process on a matched handle of a stub of
\* imposter p that has a meta.
PeerNextResponse(p) ==
    /\ getNumberOfRequests(Store, p) < MaxRequests
    /\ \E j \in 1..Len(getStubs(Store, p)) :
          LET done == nextResponse(Store, p, getStubs(Store, p)[j].meta.id)
          IN ~done.threw /\ CommitPeer(done.w)

\* RedisClient.subscribe(channel, cb) up to its second await: the subscribe
\* command is sent; commands go out in the order of the calls.
ClientSubscribe(channel) ==
    /\ Len(wire) + Len(acks) < MaxWire
    /\ wire' = Append(wire, <<"subscribe", channel>>)
    /\ unsubscribed' = unsubscribed \ {channel}
    /\ Connect
    /\ last' = Call("subscribe", 0, channel, FALSE, <<>>)
    /\ UNCHANGED <<calls, tracked, instances, handlers, pushing, errors, storeVars, inbox, imposterFns, subscriptions, listening, acks, stopped, pc,
                   appProtocols, overwriting, responding, epoch, otherIdCounter, issued, handle, history>>

\* RedisClient.unsubscribe(channel): the callback is deleted at once, then the
\* unsubscribe command is sent.
ClientUnsubscribe(channel) ==
    /\ Len(wire) + Len(acks) < MaxWire
    /\ subscriptions' = subscriptions \ {channel}
    /\ wire' = Append(wire, <<"unsubscribe", channel>>)
    /\ unsubscribed' = unsubscribed \cup {channel}
    /\ Connect
    /\ last' = Call("unsubscribe", 0, channel, FALSE, <<>>)
    /\ UNCHANGED <<calls, tracked, instances, handlers, pushing, errors, storeVars, inbox, imposterFns, listening, acks, stopped, pc,
                   appProtocols, overwriting, responding, epoch, otherIdCounter, issued, handle, history>>

\* The redis server handles the oldest command of the subscriber connection
\* and replies; the reply to a subscribe is what the client still waits for.
ServerHandles ==
    /\ wire /= <<>>
    /\ wire' = Tail(wire)
    /\ LET command == Head(wire)
       IN IF command[1] = "subscribe"
          THEN /\ listening' = listening \cup {command[2]}
               /\ acks' = Append(acks, command[2])
          ELSE /\ listening' = listening \ {command[2]}
               /\ acks' = acks
    /\ UNCHANGED <<calls, tracked, instances, handlers, pushing, errors, storeVars, closed, inbox, imposterFns, subscriptions, unsubscribed, stopped, pc,
                   appProtocols, overwriting, responding, epoch, otherIdCounter, issued, handle, history, last>>

\* The rest of subscribe(channel, cb): the wrapped callback is registered.
SubscribeResolves ==
    /\ acks /= <<>>
    /\ acks' = Tail(acks)
    /\ subscriptions' = subscriptions \cup {Head(acks)}
    /\ last' = Call("subscribe resolved", 0, Head(acks), FALSE, <<>>)
    /\ UNCHANGED <<calls, tracked, instances, handlers, pushing, errors, storeVars, closed, inbox, imposterFns, listening, wire, unsubscribed, stopped, pc,
                   appProtocols, overwriting, responding, epoch, otherIdCounter, issued, handle, history>>

\* Another client publishes on a channel the server sends to the subscriber;
\* the payload tells whether unsubscribe(channel) had been called by then.
PeerPublish(channel) ==
    /\ channel \in listening
    /\ Len(inbox) < MaxInbox
    /\ inbox' = Append(inbox, Message("peer", channel,
                                      IF channel \in unsubscribed THEN "after" ELSE "before"))
    /\ UNCHANGED <<storeVars, closed, imposterFns, lifecycleVars, handle, history, last>>

\* _subscriber.on('message') for a callback that records its call: the
\* callback of the channel, when there is one, is invoked unless the message
\* is the client's own.
SubscriberOnMessage ==
    /\ inbox /= <<>>
    /\ inbox' = Tail(inbox)
    /\ LET message == Head(inbox)
       IN last' = Call(IF message.channel \in subscriptions /\ message.clientId /= "self"
                       THEN "callback" ELSE "no callback",
                       0, message, FALSE, <<>>)
    /\ UNCHANGED <<storeVars, closed, imposterFns, lifecycleVars, handle, history>>

\* The clock of the host moves on by a millisecond.
Tick ==
    /\ epoch < MaxEpoch
    /\ epoch' = epoch + 1
    /\ UNCHANGED <<calls, tracked, instances, handlers, pushing, errors, storeVars, closed, inbox, imposterFns, subscriptions, listening, stopped, pc,
                   appProtocols, overwriting, responding, wire, acks, unsubscribed,
                   otherIdCounter, issued, handle, history, last>>

\* _generateId(prefix) of the ImposterStorage of this repository.
GenerateId(prefix) ==
    /\ Cardinality(issued) < MaxIssued
    /\ idCounter < MaxIdCounter
    /\ idCounter' = idCounter + 1
    /\ issued' = issued \cup {[by |-> "self", call |-> idCounter + 1,
                                id |-> generateIdAt(prefix, epoch, ProcessPid("self"), idCounter + 1)]}
    /\ last' = Call("_generateId", 0, prefix, FALSE, <<>>)
    /\ UNCHANGED <<calls, tracked, instances, handlers, pushing, errors, imposter, meta, response, matches, requests, requestCounter, closed, inbox,
                   imposterFns, subscriptions, listening, stopped, pc, appProtocols, overwriting,
                   responding, wire, acks, unsubscribed, epoch, otherIdCounter, handle, history>>

\* _generateId(prefix) of another ImposterStorage.
OtherGenerateId(storage, prefix) ==
    /\ Cardinality(issued) < MaxIssued
    /\ otherIdCounter[storage] < MaxIdCounter
    /\ otherIdCounter' = [otherIdCounter EXCEPT ![storage] = @ + 1]
    /\ issued' = issued \cup {[by |-> storage, call |-> otherIdCounter[storage] + 1,
                                id |-> generateIdAt(prefix, epoch, ProcessPid(storage),
                                                    otherIdCounter[storage] + 1)]}
    /\ UNCHANGED <<calls, tracked, instances, handlers, pushing, errors, storeVars, closed, inbox, imposterFns, subscriptions, listening, stopped, pc,
                   appProtocols, overwriting, responding, wire, acks, unsubscribed, epoch,
                   handle, history, last>>

----------------------------------------------------------------------------
\* The store client when a command fails: every method of RedisClient catches
\* the error, logs it under its tag and resolves to null, so that the
\* try / catch of the ImposterStorage method around it has nothing to catch.

\* A call during which commands of the store fail: w is the store it leaves,
\* ret what its promise resolves to, threw whether it rejects, logged the tags
\* of the errors logged on the way.
Fails(op, port, w, ret, threw, logged) ==
    /\ logged /= <<>>
    /\ Len(errors) + Len(logged) <= MaxErrors
    /\ w.idCounter <= MaxIdCounter
    /\ errors' = errors \o logged
    /\ Commit(w)
    /\ last' = Call(op, port, ret, threw, w.published)
    /\ UNCHANGED <<calls, tracked, instances, handlers, imposterFns, handle, history, subscriptions, listening, stopped, pc,
                   appProtocols, overwriting, responding, pushing, wire, acks, unsubscribed,
                   epoch, otherIdCounter, issued>>

\* imposterStorage.saveImposter(imposter) when hset fails: setObject resolves
\* to null, the change is published all the same and res, null, is returned.
FailingSaveImposter(imp) ==
    Fails("saveImposter", imp.port, publish(Store, "imposter_change", imp.port),
          None, FALSE, <<"SET_OBJECT_ERROR">>)

\* imposterStorage._saveResponse(response) when hset fails: the id was
\* generated, and is returned.
FailingSaveResponse(resp) ==
    Fails("_saveResponse", 0, [Store EXCEPT !.idCounter = @ + 1],
          Some(generateId("response", idCounter + 1)), FALSE, <<"SET_OBJECT_ERROR">>)

\* imposterStorage._saveMeta of the meta of the held stub when hset fails.
FailingSaveMeta ==
    /\ IsSome(handle) /\ Val(handle).success
    /\ IsSome(getMeta(Store, Val(handle).port, Val(Val(handle).stubId)))
    /\ Fails("_saveMeta", Val(handle).port, Store, None, FALSE, <<"SET_OBJECT_ERROR">>)

\* stubsFor(id).addRequest(request) when a command of pushToObject fails.
FailingAddRequest(p, request, now) ==
    Fails("addRequest", p, Store, None, FALSE, <<"PUSH_TO_OBJECT_ERROR">>)

\* stubsFor(id).add(stub) when every hset fails: the imposter is read, the
\* responses and the meta of the stub are not saved, nor is the imposter; the
\* ids are used up and the change is published.
FailingAddStub(p, stub) ==
    /\ IsSome(getImposter(Store, p))
    /\ Fails("stubs.add", p,
             publish([Store EXCEPT !.idCounter = @ + idsNeeded(stub)], "imposter_change", p),
             None, FALSE, [i \in 1..(idsNeeded(stub) + 1) |-> "SET_OBJECT_ERROR"])

\* stub.addResponse(response) on a matched handle when every hset fails: the
\* meta that was read is returned with the new response id in it; neither the
\* response nor the meta is saved.
FailingAddResponse(resp) ==
    /\ IsSome(handle) /\ Val(handle).success
    /\ IsSome(addResponse(Store, Val(handle).port, Val(Val(handle).stubId), resp).ret)
    /\ Fails("addResponse", Val(handle).port, [Store EXCEPT !.idCounter = @ + 1],
             addResponse(Store, Val(handle).port, Val(Val(handle).stubId), resp).ret,
             FALSE, <<"SET_OBJECT_ERROR", "SET_OBJECT_ERROR">>)

\* stub.nextResponse() on a matched handle when hset and hincrby fail: the
\* response at the cursor is read and returned; the cursor and the request
\* counter stay.
FailingNextResponse ==
    /\ IsSome(handle) /\ Val(handle).success
    /\ ~getNextResponse(Store, Val(handle).port, Val(Val(handle).stubId)).threw
    /\ Fails("nextResponse", Val(handle).port, Store,
             nextResponse(Store, Val(handle).port, Val(Val(handle).stubId)).ret,
             FALSE, <<"SET_OBJECT_ERROR", "INCREMENT_COUNTER_ERROR">>)

\* stub.recordMatch(...) on a matched handle when a command of pushToObject fails.
FailingRecordMatch ==
    /\ IsSome(handle) /\ Val(handle).success
    /\ Fails("recordMatch", Val(handle).port, Store, None, FALSE, <<"PUSH_TO_OBJECT_ERROR">>)

\* imposterStorage.getImposter(id) when hget fails: getObject resolves to null.
FailingGetImposter(p) == Fails("getImposter", p, Store, None, FALSE, <<"GET_OBJECT_ERROR">>)

\* imposterStorage.getAllImposters() when hvals fails: getAllObjects resolves
\* to null, which is turned into [].
FailingGetAllImposters ==
    Fails("getAllImposters", 0, Store, <<>>, FALSE, <<"GET_ALL_OBJECTS_ERROR">>)

\* Two calls of pushToObject can be between hget and hset at a time: two
\* requests of one process in flight, or one of this and one of another process.
Pushers == {"one", "other"}

\* pushToObject(type, id, obj) up to its hset: items is what
\* JSON.parse(hget(type, id) || '[]') gave.
PushReads(call, type, id, obj, items) ==
    /\ call \notin DOMAIN pushing
    /\ pushing' = [c \in DOMAIN pushing \cup {call} |->
                      IF c = call THEN [type |-> type, id |-> id, obj |-> obj, items |-> items]
                      ELSE pushing[c]]
    /\ Read
    /\ UNCHANGED <<calls, tracked, instances, handlers, imposterFns, handle, history, subscriptions, listening, stopped, pc,
                   appProtocols, overwriting, responding, errors, wire, acks, unsubscribed,
                   epoch, otherIdCounter, issued, last>>

\* stubsFor(id).addRequest(request) at the time now, up to the hset.
AddRequestReads(call, p, request, now) ==
    PushReads(call, "requests", p, RecordedRequest(request, now), getRequests(Store, p))

\* stub.recordMatch(...) on a matched handle, up to the hset.
RecordMatchReads(call) ==
    /\ IsSome(handle) /\ Val(handle).success
    /\ PushReads(call, "matches", Val(Val(handle).stubId), "match",
                 IF IsSome(getMatches(Store, Val(Val(handle).stubId)))
                 THEN Val(getMatches(Store, Val(Val(handle).stubId))) ELSE <<>>)

\* The rest of that pushToObject: items.push(obj), hset(type, id, items).
PushWrites(call) ==
    /\ call \in DOMAIN pushing
    /\ LET push == pushing[call]
       IN IF push.type = "requests"
          THEN /\ Len(push.items) < MaxLogged
               /\ Commit([Store EXCEPT !.requests = setObject(@, push.id, Append(push.items, push.obj))])
               /\ last' = Call("addRequest", push.id, None, FALSE, <<>>)
          ELSE /\ Len(push.items) < MaxMatches
               /\ Commit([Store EXCEPT !.matches = setObject(@, push.id, Append(push.items, push.obj))])
               /\ last' = Call("recordMatch", 0, None, FALSE, <<>>)
    /\ pushing' = [c \in DOMAIN pushing \ {call} |-> pushing[c]]
    /\ UNCHANGED <<calls, tracked, instances, handlers, imposterFns, handle, history, subscriptions, listening, stopped, pc,
                   appProtocols, overwriting, responding, errors, wire, acks, unsubscribed,
                   epoch, otherIdCounter, issued>>

----------------------------------------------------------------------------
\* ImposterStorage calls of two processes, taken apart at their awaits.  The
\* pid in an id tells the ids of two processes apart; here the ids of both
\* are drawn from one counter, which keeps them apart as well.
Callers == {"this", "peer"}

\* What a call of one of the processes leaves in the store.
CommitAs(caller, w) ==
    /\ closed' = IF caller = "this" THEN FALSE ELSE closed
    /\ inbox' = received(inbox, listening, IF caller = "this" THEN "self" ELSE "peer", w.published)
    /\ Len(inbox') <= MaxInbox
    /\ imposter' = w.imposter
    /\ meta' = w.meta
    /\ response' = w.response
    /\ matches' = w.matches
    /\ requests' = w.requests
    /\ requestCounter' = w.requestCounter
    /\ idCounter' = w.idCounter
    /\ history' = stored(history, w)

\* The call of the caller goes on to its next await with what it holds, or is over.
Holds(caller, held) ==
    calls' = [c \in DOMAIN calls \cup {caller} |-> IF c = caller THEN held ELSE calls[c]]

Over(caller) == calls' = [c \in DOMAIN calls \ {caller} |-> calls[c]]

\* addStub(imposterId, stub, index) up to saveImposter: the imposter is read,
\* the meta and the responses of the stub are saved; without an imposter the
\* call is over.
AddStubReads(caller, p, stub, index) ==
    /\ caller \notin DOMAIN calls
    /\ idCounter + idsNeeded(stub) <= MaxIdCounter
    /\ IF ~IsSome(getImposter(Store, p))
       THEN /\ CommitAs(caller, Store)
            /\ Over(caller)
            /\ last' = Call("addStub", p, None, FALSE, <<>>)
       ELSE /\ CommitAs(caller, saveStubNext(Store, p, stub).w)
            /\ Holds(caller, [op |-> "addStub", port |-> p, index |-> index,
                              imposter |-> Val(getImposter(Store, p)),
                              def |-> saveStubNext(Store, p, stub).def])
            /\ last' = Call("addStub reads", p, None, FALSE, <<>>)
    /\ UNCHANGED <<imposterFns, handle, subscriptions, listening, stopped, pc, appProtocols,
                   overwriting, responding, pushing, errors, tracked, instances, handlers,
                   wire, acks, unsubscribed, epoch, otherIdCounter, issued>>

\* addStub that reads the imposter again before it saves it.
AddStubSavesLatest(caller) ==
    /\ caller \in DOMAIN calls /\ calls[caller].op = "addStub"
    /\ IsSome(getImposter(Store, calls[caller].port))
    /\ Len(getStubs(Store, calls[caller].port)) < MaxStubs
    /\ CommitAs(caller, saveImposter(Store,
                   [Val(getImposter(Store, calls[caller].port)) EXCEPT
                       !.stubs = IF IsSome(calls[caller].index)
                                 THEN spliceIn(@, Val(calls[caller].index), calls[caller].def)
                                 ELSE Append(@, calls[caller].def)]))
    /\ Over(caller)
    /\ last' = Call("addStub", calls[caller].port, None, FALSE, <<>>)
    /\ UNCHANGED <<imposterFns, handle, subscriptions, listening, stopped, pc, appProtocols,
                   overwriting, responding, pushing, errors, tracked, instances, handlers,
                   wire, acks, unsubscribed, epoch, otherIdCounter, issued>>

\* The rest of that addStub: the stub goes into the stub list of the imposter
\* that was read, and that imposter is saved.
AddStubSaves(caller) ==
    /\ caller \in DOMAIN calls /\ calls[caller].op = "addStub"
    /\ Len(calls[caller].imposter.stubs) < MaxStubs
    /\ CommitAs(caller, saveImposter(Store,
                   [calls[caller].imposter EXCEPT
                       !.stubs = IF IsSome(calls[caller].index)
                                 THEN spliceIn(@, Val(calls[caller].index), calls[caller].def)
                                 ELSE Append(@, calls[caller].def)]))
    /\ Over(caller)
    /\ last' = Call("addStub", calls[caller].port, None, FALSE, <<>>)
    /\ UNCHANGED <<imposterFns, handle, subscriptions, listening, stopped, pc, appProtocols,
                   overwriting, responding, pushing, errors, tracked, instances, handlers,
                   wire, acks, unsubscribed, epoch, otherIdCounter, issued>>

\* getNextResponse(imposterId, stubId) of the j-th stub of imposter p up to
\* _saveMeta: the meta is read; without a meta the call rejects.
GetNextResponseReads(caller, p, j) ==
    /\ caller \notin DOMAIN calls
    /\ j \in 1..Len(getStubs(Store, p))
    /\ LET stubId == getStubs(Store, p)[j].meta.id
       IN IF ~IsSome(getMeta(Store, p, stubId))
          THEN /\ Over(caller)
               /\ last' = Call("getNextResponse", p, None, TRUE, <<>>)
          ELSE /\ Holds(caller, [op |-> "getNextResponse", port |-> p, stubId |-> stubId,
                                 meta |-> Val(getMeta(Store, p, stubId))])
               /\ last' = Call("getNextResponse reads", p, None, FALSE, <<>>)
    /\ CommitAs(caller, Store)
    /\ UNCHANGED <<imposterFns, handle, subscriptions, listening, stopped, pc, appProtocols,
                   overwriting, responding, pushing, errors, tracked, instances, handlers,
                   wire, acks, unsubscribed, epoch, otherIdCounter, issued>>

\* getNextResponse that reads the meta again before it moves the cursor.
GetNextResponseWritesLatest(caller) ==
    /\ caller \in DOMAIN calls /\ calls[caller].op = "getNextResponse"
    /\ ~getNextResponse(Store, calls[caller].port, calls[caller].stubId).threw
    /\ CommitAs(caller, getNextResponse(Store, calls[caller].port, calls[caller].stubId).w)
    /\ last' = Call("getNextResponse", calls[caller].port,
                    getNextResponse(Store, calls[caller].port, calls[caller].stubId).ret,
                    FALSE, <<>>)
    /\ Over(caller)
    /\ UNCHANGED <<imposterFns, handle, subscriptions, listening, stopped, pc, appProtocols,
                   overwriting, responding, pushing, errors, tracked, instances, handlers,
                   wire, acks, unsubscribed, epoch, otherIdCounter, issued>>

\* The rest of that getNextResponse: the slot and the next cursor are worked
\* out from the meta that was read, that meta is saved with the new cursor,
\* and the response of the slot is read.
GetNextResponseWrites(caller) ==
    /\ caller \in DOMAIN calls /\ calls[caller].op = "getNextResponse"
    /\ LET c == calls[caller]
           done == getNextResponse([Store EXCEPT !.meta = setObject(@, metaKey(c.port, c.stubId),
                                                                    c.meta)],
                                   c.port, c.stubId)
       IN /\ CommitAs(caller, done.w)
          /\ last' = Call("getNextResponse", c.port, done.ret, FALSE, <<>>)
    /\ Over(caller)
    /\ UNCHANGED <<imposterFns, handle, subscriptions, listening, stopped, pc, appProtocols,
                   overwriting, responding, pushing, errors, tracked, instances, handlers,
                   wire, acks, unsubscribed, epoch, otherIdCounter, issued>>

\* The table of a process, entry by entry.  instances lists the imposter
\* instances the process obtained, each with its port, the stored record it
\* was created from (None for an instance handed to add) and the number of
\* times its stop() was invoked; tracked gives, for every key of imposterFns,
\* the instance whose functions the entry holds; handlers are the
\* notification handlers that have not finished.

\* What neither the table nor a notification handler touches.
otherFlights == <<overwriting, responding, pushing, errors, calls, wire, acks, unsubscribed,
                  epoch, otherIdCounter, issued>>

\* addReference(imposter): the functions of the instance become the entry of
\* its port, whatever entry was there.
addReference(table, made, port, from) ==
    [table |-> [p \in DOMAIN table \cup {port} |-> IF p = port THEN Len(made) + 1 ELSE table[p]],
     made |-> Append(made, [port |-> port, from |-> from, stops |-> 0])]

\* shutdown that invokes stop() and leaves the entry in the table.
shutdownKeepingEntries(table, made, ids) ==
    [table |-> table,
     made |-> [i \in 1..Len(made) |->
                  IF \E p \in ids \cap DOMAIN table : table[p] = i
                  THEN [made[i] EXCEPT !.stops = @ + 1]
                  ELSE made[i]]]

\* shutdown(id) for every id of ids: an id without an entry is passed over;
\* the entry of the others is deleted and its stop() invoked.
shutdownEntries(table, made, ids) ==
    [table |-> [p \in DOMAIN table \ ids |-> table[p]],
     made |-> [i \in 1..Len(made) |->
                  IF \E p \in ids \cap DOMAIN table : table[p] = i
                  THEN [made[i] EXCEPT !.stops = @ + 1]
                  ELSE made[i]]]

\* The table after a teardown.
TornDown(torn) ==
    /\ tracked' = torn.table
    /\ instances' = torn.made
    /\ imposterFns' = DOMAIN torn.table
    /\ stopped' = DOMAIN tracked \ DOMAIN torn.table

\* The table after an addReference.
Referenced(added) ==
    /\ tracked' = added.table
    /\ instances' = added.made
    /\ imposterFns' = DOMAIN added.table
    /\ stopped' = {}

\* repository.add(imposter), with the instance that is handed in.
InstanceAdd(config) ==
    /\ imposterFns = DOMAIN tracked
    /\ Len(instances) < MaxInstances
    /\ idCounter + idsNeededAll(stubsOf(config)) <= MaxIdCounter
    /\ LET done == add(Store, config)
       IN /\ Commit(done.w)
          /\ history' = stored(created(history, done.defs, stubsOf(config)), done.w)
          /\ last' = Call("add", config.port, None, FALSE, done.w.published)
    /\ Referenced(addReference(tracked, instances, config.port, None))
    /\ UNCHANGED <<handle, subscriptions, listening, pc, appProtocols, handlers, otherFlights>>

\* repository.del(id)
InstanceDel(p) ==
    /\ imposterFns = DOMAIN tracked
    /\ LET done == del(Store, imposterFns, p)
       IN /\ Commit(done.w)
          /\ TornDown(shutdownEntries(tracked, instances, imposterFns \ done.fns))
          /\ history' = stored(history, done.w)
          /\ last' = Call("del", p, done.ret, done.threw, done.w.published)
    /\ UNCHANGED <<handle, subscriptions, listening, pc, appProtocols, handlers, otherFlights>>

\* repository.deleteAll()
InstanceDeleteAll ==
    /\ imposterFns = DOMAIN tracked
    /\ LET done == deleteAll(Store, imposterFns)
       IN /\ Commit(done.w)
          /\ TornDown(shutdownEntries(tracked, instances, done.stopped))
          /\ history' = stored(history, done.w)
          /\ last' = Call("deleteAll", 0, None, FALSE, done.w.published)
    /\ UNCHANGED <<handle, subscriptions, listening, pc, appProtocols, handlers, otherFlights>>

\* repository.stopAll() up to its first await: shutdown of every key.
InstanceStopAll ==
    /\ imposterFns = DOMAIN tracked
    /\ pc = "idle"
    /\ pc' = "stopAll"
    /\ TornDown(shutdownEntries(tracked, instances, DOMAIN tracked))
    /\ last' = Call("stopAll", 0, None, FALSE, <<>>)
    /\ Untouched
    /\ UNCHANGED <<subscriptions, listening, appProtocols, handlers, otherFlights, handle, history>>

\* repository.loadAll(protocols) of a process that has loaded nothing: every
\* stored imposter whose protocol is among protocols gets an instance from
\* createImposterFrom, then the three channels are subscribed.
RECURSIVE loadEach(_, _, _)
loadEach(table, made, configs) ==
    IF configs = {} THEN [table |-> table, made |-> made]
    ELSE LET config == CHOOSE c \in configs : \A d \in configs : c.port <= d.port
             added == addReference(table, made, config.port, Some(config))
         IN loadEach(added.table, added.made, configs \ {config})

InstanceLoadAll(protocols) ==
    /\ imposterFns = DOMAIN tracked
    /\ subscriptions = {} /\ pc = "idle" /\ tracked = NoFields
    /\ Len(instances) + Cardinality(DOMAIN imposter) <= MaxInstances
    /\ appProtocols' = protocols
    /\ Read
    /\ Referenced(loadEach(tracked, instances,
                           {c \in getAllImposters(Store) : c.protocol \in protocols}))
    /\ subscriptions' = Channels
    /\ listening' = Channels
    /\ last' = Call("loadAll", 0, None, FALSE, <<>>)
    /\ UNCHANGED <<pc, handlers, otherFlights, handle, history>>

\* _subscriber.on('message'): the oldest message goes to the callback of its
\* channel, which drops a message of its own client.  onImposterChange runs
\* shutdown up to its await and leaves the rest of the handler in flight;
\* onImposterDelete and onAllImpostersDelete run shutdown.
InstanceDeliver ==
    /\ imposterFns = DOMAIN tracked
    /\ inbox /= <<>>
    /\ inbox' = Tail(inbox)
    /\ LET message == Head(inbox)
           handled == message.channel \in subscriptions /\ message.clientId /= "self"
           free == (1..MaxHandlers) \ DOMAIN handlers
       IN IF ~handled
          THEN /\ last' = Call("ignored", message.payload, None, FALSE, <<>>)
               /\ UNCHANGED <<tracked, instances, imposterFns, stopped, handlers>>
          ELSE /\ TornDown(shutdownEntries(tracked, instances,
                                           IF message.channel = "all_imposters_delete"
                                           THEN DOMAIN tracked
                                           ELSE {message.payload}))
               /\ last' = Call(message.channel, message.payload, None, FALSE, <<>>)
               /\ IF message.channel = "imposter_change"
                  THEN /\ free /= {}
                       /\ handlers' =
                             [h \in DOMAIN handlers \cup {CHOOSE f \in free : \A g \in free : f <= g} |->
                                 IF h \in DOMAIN handlers THEN handlers[h]
                                 ELSE [port |-> message.payload, at |-> "get", config |-> None]]
                  ELSE UNCHANGED handlers
    /\ UNCHANGED <<storeVars, closed, subscriptions, listening, pc, appProtocols, otherFlights,
                   handle, history>>

\* The handler of a change notification once shutdown has settled:
\* getImposter; without a record the handler is over; loadImposter looks up
\* the protocol and, when there is one, calls createImposterFrom.
HandlerGets(h) ==
    /\ h \in DOMAIN handlers /\ handlers[h].at = "get"
    /\ LET imposterConfig == getImposter(Store, handlers[h].port)
       IN IF IsSome(imposterConfig) /\ Val(imposterConfig).protocol \in appProtocols
          THEN handlers' = [handlers EXCEPT ![h] = [port |-> handlers[h].port, at |-> "create",
                                                     config |-> imposterConfig]]
          ELSE handlers' = [g \in DOMAIN handlers \ {h} |-> handlers[g]]
    /\ last' = Call("getImposter", handlers[h].port, None, FALSE, <<>>)
    /\ Read
    /\ UNCHANGED <<imposterFns, stopped, tracked, instances, subscriptions, listening, pc,
                   appProtocols, otherFlights, handle, history>>

\* createImposterFrom of that handler settles: the instance it resolved with
\* goes through addReference; a rejection is logged.
HandlerLoads(h, built) ==
    /\ imposterFns = DOMAIN tracked
    /\ h \in DOMAIN handlers /\ handlers[h].at = "create"
    /\ handlers' = [g \in DOMAIN handlers \ {h} |-> handlers[g]]
    /\ IF built
       THEN /\ Len(instances) < MaxInstances
            /\ Referenced(addReference(tracked, instances, handlers[h].port, handlers[h].config))
       ELSE UNCHANGED <<imposterFns, stopped, tracked, instances>>
    /\ last' = Call("loadImposter", handlers[h].port, None, FALSE, <<>>)
    /\ UNCHANGED <<storeVars, closed, inbox, subscriptions, listening, pc, appProtocols,
                   otherFlights, handle, history>>

Prefixes == {"stub", "response"}

Indexes == 0..MaxStubs

\* Every operation of the model.
Next ==
    \/ \E config \in Configs : ImposterAdd(config)
    \/ \E p \in Ports : ImposterGet(p)
    \/ \E p \in Ports : ImposterDel(p)
    \/ \E p \in Ports : StubsCount(p)
    \/ \E p \in Ports, filter \in Filters, startIndex \in Indexes : StubsFirst(p, filter, startIndex)
    \/ \E p \in Ports, stub \in StubInputs : StubsAdd(p, stub)
    \/ \E p \in Ports, stub \in StubInputs, index \in Indexes : StubsInsertAtIndex(p, stub, index)
    \/ \E p \in Ports, index \in Indexes : StubsDeleteAtIndex(p, index)
    \/ \E p \in Ports, stub \in StubInputs, index \in Indexes : StubsOverwriteAtIndex(p, stub, index)
    \/ \E p \in Ports, stubs \in SeqsUpTo(StubInputs, MaxStubs) : StubsOverwriteAll(p, stubs)
    \/ \E p \in Ports : StubsDeleteSavedProxyResponses(p)
    \/ \E p \in Ports : StubsAddRequest(p)
    \/ HandleNextResponse
    \/ \E resp \in Responses : HandleAddResponse(resp)
    \/ HandleRecordMatch
    \/ ResponseStubIndex
    \/ \E id \in {Num(p) : p \in Ports} \cup {Str(ToString(p)) : p \in Ports} : RepoExists(id)
    \/ RepoAll
    \/ RepoDeleteAll
    \/ \E protocols \in SUBSET {"tcp"}, failing \in SUBSET Ports : RepoLoadAll(protocols, failing)
    \/ RepoStopAll
    \/ StopAllSettles
    \/ \E built \in BOOLEAN : Deliver(built)
    \/ \E config \in Configs : PeerSaveImposter([port |-> config.port, protocol |-> config.protocol,
                                                  stubs |-> <<>>])
    \/ \E p \in Ports : PeerDeleteImposter(p)
    \/ PeerDeleteAllImposters
    \/ \E p \in Ports, stub \in StubInputs, index \in Indexes : OverwriteDeletes(p, stub, index)
    \/ OverwriteInserts
    \/ OverwriteAbandoned
    \/ \E p \in Ports, request \in MbRequests, now \in Times : StubsLogRequest(p, request, now)
    \/ \E p \in Ports : StubsLoadRequests(p)
    \/ \E p \in Ports : StubsDeleteSavedRequests(p)
    \/ NextResponseReads
    \/ NextResponseCounts
    \/ \E p \in Ports : StubsGetNumberOfRequests(p)
    \/ \E p \in Ports : PeerNextResponse(p)
    \/ \E channel \in Channels : ClientSubscribe(channel)
    \/ \E channel \in Channels : ClientUnsubscribe(channel)
    \/ ServerHandles
    \/ SubscribeResolves
    \/ \E channel \in Channels : PeerPublish(channel)
    \/ SubscriberOnMessage
    \/ Tick
    \/ \E prefix \in Prefixes : GenerateId(prefix)
    \/ \E storage \in OtherStorages, prefix \in Prefixes : OtherGenerateId(storage, prefix)
    \/ \E config \in Configs : FailingSaveImposter([port |-> config.port, protocol |-> config.protocol,
                                                     stubs |-> <<>>])
    \/ \E resp \in Responses : FailingSaveResponse(resp)
    \/ FailingSaveMeta
    \/ \E p \in Ports, request \in MbRequests, now \in Times : FailingAddRequest(p, request, now)
    \/ \E p \in Ports, stub \in StubInputs : FailingAddStub(p, stub)
    \/ \E resp \in Responses : FailingAddResponse(resp)
    \/ FailingNextResponse
    \/ FailingRecordMatch
    \/ \E p \in Ports : FailingGetImposter(p)
    \/ FailingGetAllImposters
    \/ \E call \in Pushers, p \in Ports, request \in MbRequests, now \in Times :
          AddRequestReads(call, p, request, now)
    \/ \E call \in Pushers : RecordMatchReads(call)
    \/ \E call \in Pushers : PushWrites(call)
    \/ \E caller \in Callers, p \in Ports, stub \in StubInputs, index \in {None, Some(0)} :
          AddStubReads(caller, p, stub, index)
    \/ \E caller \in Callers : AddStubSaves(caller)
    \/ \E caller \in Callers, p \in Ports, j \in 1..MaxStubs : GetNextResponseReads(caller, p, j)
    \/ \E caller \in Callers : GetNextResponseWrites(caller)
    \/ \E config \in Configs : InstanceAdd(config)
    \/ \E p \in Ports : InstanceDel(p)
    \/ InstanceDeleteAll
    \/ InstanceStopAll
    \/ \E protocols \in {{"tcp"}, {"tcp", "smtp"}} : InstanceLoadAll(protocols)
    \/ InstanceDeliver
    \/ \E h \in 1..MaxHandlers : HandlerGets(h)
    \/ \E h \in 1..MaxHandlers, built \in BOOLEAN : HandlerLoads(h, built)

Spec == Init /\ [][Next]_vars

\* mountebank binds the port of an imposter before it adds it to the repository:
\* the callers below add an imposter only on a port that has no record.
PortIsFree(p) == ~IsSome(getImposter(Store, p))

ImposterCreate(config) == PortIsFree(config.port) /\ ImposterAdd(config)

\* The response engine: imposters are added and deleted, stubs matched, their
\* responses served and appended.
NextResponses ==
    \/ \E config \in Configs : ImposterCreate(config)
    \/ \E p \in Ports : ImposterDel(p)
    \/ \E p \in Ports, filter \in Filters, startIndex \in Indexes : StubsFirst(p, filter, startIndex)
    \/ HandleNextResponse
    \/ \E resp \in Responses : HandleAddResponse(resp)

SpecResponses == Init /\ [][NextResponses]_vars

\* The stub view: the stub sequence of an imposter is read and edited while
\* a handle and its response are held.
NextStubs ==
    \/ \E config \in Configs : ImposterCreate(config)
    \/ \E p \in Ports, filter \in Filters, startIndex \in Indexes : StubsFirst(p, filter, startIndex)
    \/ \E p \in Ports, stub \in StubInputs, index \in Indexes : StubsInsertAtIndex(p, stub, index)
    \/ \E p \in Ports, index \in Indexes : StubsDeleteAtIndex(p, index)
    \/ HandleNextResponse
    \/ ResponseStubIndex

SpecStubs == Init /\ [][NextStubs]_vars

\* Edits by index: stubs are appended, deleted and overwritten, on imposters
\* that have a record and on ports that have none.
NextEdits ==
    \/ \E config \in Configs : ImposterCreate(config)
    \/ \E p \in Ports : ImposterDel(p)
    \/ \E p \in Ports : StubsCount(p)
    \/ \E p \in Ports, stub \in StubInputs : StubsAdd(p, stub)
    \/ \E p \in Ports, index \in Indexes : StubsDeleteAtIndex(p, index)
    \/ \E p \in Ports, stub \in StubInputs, index \in Indexes : StubsOverwriteAtIndex(p, stub, index)

SpecEdits == Init /\ [][NextEdits]_vars

\* Proxy recording: responses are appended to matched stubs and served, and
\* the saved proxy responses are deleted again.
NextProxy ==
    \/ \E config \in Configs : ImposterCreate(config)
    \/ \E p \in Ports, filter \in Filters, startIndex \in Indexes : StubsFirst(p, filter, startIndex)
    \/ \E p \in Ports : StubsDeleteSavedProxyResponses(p)
    \/ HandleNextResponse
    \/ \E resp \in Responses : HandleAddResponse(resp)

SpecProxy == Init /\ [][NextProxy]_vars

\* The facade: imposters are added, read and deleted, with responses, matches
\* and requests recorded in between.
NextImposters ==
    \/ \E config \in Configs : ImposterCreate(config)
    \/ \E p \in Ports : ImposterGet(p)
    \/ \E p \in Ports : ImposterDel(p)
    \/ \E p \in Ports : StubsCount(p)
    \/ \E p \in Ports, filter \in Filters, startIndex \in Indexes : StubsFirst(p, filter, startIndex)
    \/ \E p \in Ports : StubsAddRequest(p)
    \/ \E resp \in Responses : HandleAddResponse(resp)
    \/ HandleRecordMatch

SpecImposters == Init /\ [][NextImposters]_vars

\* The handles: first() resolves to a matched stub or to the no-op handle, and
\* every closure of the handle and of its response is called.
NextHandles ==
    \/ \E config \in Configs : ImposterCreate(config)
    \/ \E p \in Ports, filter \in Filters, startIndex \in Indexes : StubsFirst(p, filter, startIndex)
    \/ HandleNextResponse
    \/ \E resp \in Responses : HandleAddResponse(resp)
    \/ HandleRecordMatch
    \/ ResponseStubIndex

SpecHandles == Init /\ [][NextHandles]_vars

\* The lifecycle of the table: a tcp imposter with one stub on port 1, an smtp
\* imposter without stubs on port 2, and another process writing to the same
\* store.
AllPorts == {1, 2}
Protocols == {"tcp", "smtp"}
Ids == {Num(p) : p \in AllPorts} \cup {Str(ToString(p)) : p \in AllPorts}

LifecycleConfigs ==
    { [port |-> 1, protocol |-> "tcp",
       stubs |-> Some(<<Stub(Some(<<>>), Some(<<Resp("a", 0, FALSE)>>))>>)],
      [port |-> 2, protocol |-> "smtp", stubs |-> None] }

PeerImposters ==
    { [port |-> 1, protocol |-> "tcp", stubs |-> <<>>],
      [port |-> 2, protocol |-> "smtp", stubs |-> <<>>] }

NextLifecycle ==
    \/ \E config \in LifecycleConfigs : ImposterCreate(config)
    \/ \E p \in AllPorts : ImposterGet(p)
    \/ \E p \in AllPorts : ImposterDel(p)
    \/ \E id \in Ids : RepoExists(id)
    \/ RepoAll
    \/ RepoDeleteAll
    \/ \E protocols \in {{"tcp"}, Protocols}, failing \in {{}, {1}} : RepoLoadAll(protocols, failing)
    \/ RepoStopAll
    \/ StopAllSettles
    \/ \E built \in BOOLEAN : Deliver(built)
    \/ \E imp \in PeerImposters : PeerSaveImposter(imp)
    \/ \E p \in AllPorts : PeerDeleteImposter(p)
    \/ PeerDeleteAllImposters

SpecLifecycle == Init /\ [][NextLifecycle]_vars

\* The reset: imposters serve requests, record matches and log requests, and
\* deleteAll() clears everything.
NextReset ==
    \/ \E config \in LifecycleConfigs : ImposterCreate(config)
    \/ \E p \in AllPorts, filter \in {"all"}, startIndex \in {0} : StubsFirst(p, filter, startIndex)
    \/ \E p \in AllPorts : StubsAddRequest(p)
    \/ HandleNextResponse
    \/ HandleRecordMatch
    \/ RepoAll
    \/ RepoDeleteAll

SpecReset == Init /\ [][NextReset]_vars

\* Insertion: stubs are appended and inserted by index into imposters whose
\* stubs have served responses and recorded matches.
NextInsert ==
    \/ \E config \in Configs : ImposterCreate(config)
    \/ \E p \in Ports : StubsCount(p)
    \/ \E p \in Ports, filter \in Filters, startIndex \in Indexes : StubsFirst(p, filter, startIndex)
    \/ \E p \in Ports, stub \in StubInputs : StubsAdd(p, stub)
    \/ \E p \in Ports, stub \in StubInputs, index \in Indexes : StubsInsertAtIndex(p, stub, index)
    \/ HandleNextResponse
    \/ HandleRecordMatch

SpecInsert == Init /\ [][NextInsert]_vars

\* Deletion: stubs are deleted by index from imposters whose stubs have served
\* responses, had responses appended and recorded matches.
NextDelete ==
    \/ \E config \in Configs : ImposterCreate(config)
    \/ \E p \in Ports, startIndex \in Indexes : StubsFirst(p, "all", startIndex)
    \/ \E p \in Ports, index \in Indexes : StubsDeleteAtIndex(p, index)
    \/ HandleNextResponse
    \/ HandleAddResponse(Resp("p", 0, TRUE))
    \/ HandleRecordMatch

SpecDelete == Init /\ [][NextDelete]_vars

\* Replacement: the whole stub sequence is overwritten on imposters whose
\* stubs have served responses, had a response appended and recorded matches.
StubLists == SeqsUpTo(StubInputs, MaxStubs)

NextOverwrite ==
    \/ \E config \in Configs : ImposterCreate(config)
    \/ \E p \in Ports, startIndex \in Indexes : StubsFirst(p, "all", startIndex)
    \/ \E p \in Ports, stubs \in StubLists : StubsOverwriteAll(p, stubs)
    \/ HandleNextResponse
    \/ HandleAddResponse(Resp("p", 0, TRUE))
    \/ HandleRecordMatch

SpecOverwrite == Init /\ [][NextOverwrite]_vars

\* Overwriting by index, step by step: between the deleteAtIndex and the
\* insertAtIndex of an overwriteAtIndex the readers run.
NextOverwriteAt ==
    \/ \E config \in Configs : ImposterCreate(config)
    \/ \E p \in Ports : StubsCount(p)
    \/ \E p \in Ports, startIndex \in Indexes : StubsFirst(p, "all", startIndex)
    \/ \E p \in Ports, stub \in StubInputs, index \in Indexes : OverwriteDeletes(p, stub, index)
    \/ OverwriteInserts
    \/ OverwriteAbandoned

SpecOverwriteAt == Init /\ [][NextOverwriteAt]_vars

\* The request log: requests are logged for two ports, with and without an
\* imposter record, read back and cleared, and imposters deleted.
NextRequests ==
    \/ \E config \in LifecycleConfigs : ImposterCreate(config)
    \/ \E p \in AllPorts : ImposterDel(p)
    \/ \E p \in AllPorts, request \in MbRequests, now \in Times : StubsLogRequest(p, request, now)
    \/ \E p \in AllPorts : StubsLoadRequests(p)
    \/ \E p \in AllPorts : StubsDeleteSavedRequests(p)
    \/ RepoDeleteAll

SpecRequests == Init /\ [][NextRequests]_vars

\* The request counter: responses are served by this process, whole or with
\* other calls between the two awaits of nextResponse, and by another process,
\* on matched, unmatched and stale handles; imposters are deleted and the
\* store is reset.
NextCounter ==
    \/ \E config \in LifecycleConfigs : ImposterCreate(config)
    \/ \E p \in AllPorts : ImposterDel(p)
    \/ \E p \in AllPorts : StubsFirst(p, "all", 0)
    \/ \E p \in AllPorts : StubsGetNumberOfRequests(p)
    \/ HandleNextResponse
    \/ NextResponseReads
    \/ NextResponseCounts
    \/ \E p \in AllPorts : PeerNextResponse(p)
    \/ RepoDeleteAll

SpecCounter == Init /\ [][NextCounter]_vars

\* The pub/sub client: channels are subscribed and unsubscribed without
\* waiting for the calls to resolve, while another client publishes.
NextPubSub ==
    \/ \E channel \in Channels : ClientSubscribe(channel)
    \/ \E channel \in Channels : ClientUnsubscribe(channel)
    \/ ServerHandles
    \/ SubscribeResolves
    \/ \E channel \in Channels : PeerPublish(channel)
    \/ SubscriberOnMessage

SpecPubSub == Init /\ [][NextPubSub]_vars

\* Identifiers: three ImposterStorage instances, two of them in one process,
\* draw ids while the clock moves on.
NextIds ==
    \/ Tick
    \/ \E prefix \in Prefixes : GenerateId(prefix)
    \/ \E storage \in OtherStorages, prefix \in Prefixes : OtherGenerateId(storage, prefix)

SpecIds == Init /\ [][NextIds]_vars

\* Calls on a store whose commands fail, between calls that find it working.
NextFailures ==
    \/ \E config \in Configs : ImposterCreate(config)
    \/ \E p \in Ports : StubsFirst(p, "all", 0)
    \/ \E config \in Configs : FailingSaveImposter([port |-> config.port, protocol |-> config.protocol,
                                                     stubs |-> <<>>])
    \/ \E resp \in Responses : FailingSaveResponse(resp)
    \/ FailingSaveMeta
    \/ \E p \in Ports, request \in MbRequests, now \in Times : FailingAddRequest(p, request, now)
    \/ \E p \in Ports, stub \in StubInputs : FailingAddStub(p, stub)
    \/ \E resp \in Responses : FailingAddResponse(resp)
    \/ FailingNextResponse
    \/ FailingRecordMatch
    \/ \E p \in Ports : FailingGetImposter(p)
    \/ FailingGetAllImposters

SpecFailures == Init /\ [][NextFailures]_vars

\* Appends to the request log and to the match list that overlap.
NextAppends ==
    \/ ImposterCreate([port |-> 1, protocol |-> "tcp",
                       stubs |-> Some(<<Stub(Some(<<>>), Some(<<Resp("a", 0, FALSE)>>))>>)])
    \/ \E p \in Ports : StubsFirst(p, "all", 0)
    \/ \E p \in Ports : StubsLoadRequests(p)
    \/ \E call \in Pushers, p \in Ports, request \in MbRequests :
          AddRequestReads(call, p, request, 1)
    \/ \E call \in Pushers : RecordMatchReads(call)
    \/ \E call \in Pushers : PushWrites(call)

SpecAppends == Init /\ [][NextAppends]_vars

\* Stubs are added to and written over imposters that are there and that are not.
NextMissing ==
    \/ \E config \in Configs : ImposterCreate(config)
    \/ \E p \in Ports : ImposterDel(p)
    \/ \E p \in AllPorts, stub \in StubInputs : StubsAdd(p, stub)
    \/ \E p \in AllPorts, stub \in StubInputs, index \in Indexes : StubsInsertAtIndex(p, stub, index)
    \/ \E p \in AllPorts, stubs \in StubLists : StubsOverwriteAll(p, stubs)

SpecMissing == Init /\ [][NextMissing]_vars

\* Every call that writes stubs, one at a time; add() also of a port that has
\* a record already.
NextIntegrity ==
    \/ \E config \in Configs : ImposterAdd(config)
    \/ \E p \in Ports : ImposterDel(p)
    \/ \E p \in Ports : StubsFirst(p, "all", 0)
    \/ \E p \in Ports, stub \in StubInputs : StubsAdd(p, stub)
    \/ \E p \in Ports, stub \in StubInputs, index \in Indexes : StubsInsertAtIndex(p, stub, index)
    \/ \E p \in Ports, index \in Indexes : StubsDeleteAtIndex(p, index)
    \/ \E p \in Ports, stubs \in StubLists : StubsOverwriteAll(p, stubs)
    \/ \E p \in Ports : StubsDeleteSavedProxyResponses(p)
    \/ \E resp \in Responses : HandleAddResponse(resp)
    \/ RepoDeleteAll

SpecIntegrity == Init /\ [][NextIntegrity]_vars

\* Two processes add stubs to one imposter.
NextLostUpdate ==
    \/ \E config \in Configs : ImposterCreate(config)
    \/ \E p \in Ports : StubsCount(p)
    \/ \E caller \in Callers, p \in Ports, stub \in StubInputs, index \in {None, Some(0)} :
          AddStubReads(caller, p, stub, index)
    \/ \E caller \in Callers : AddStubSaves(caller)

SpecLostUpdate == Init /\ [][NextLostUpdate]_vars

\* Two callers move the cursors of the stubs of one imposter.
NextCursor ==
    \/ \E config \in Configs : ImposterCreate(config)
    \/ \E p \in Ports : StubsCount(p)
    \/ \E caller \in Callers, p \in Ports, j \in 1..MaxStubs : GetNextResponseReads(caller, p, j)
    \/ \E caller \in Callers : GetNextResponseWrites(caller)

SpecCursor == Init /\ [][NextCursor]_vars

\* Stubs are deleted while calls that move their cursors are in flight.
NextResurrect ==
    \/ \E config \in LifecycleConfigs : ImposterCreate(config)
    \/ \E p \in Ports : ImposterDel(p)
    \/ \E p \in Ports, index \in Indexes : StubsDeleteAtIndex(p, index)
    \/ \E p \in Ports, stubs \in StubLists : StubsOverwriteAll(p, stubs)
    \/ \E caller \in Callers, p \in Ports, j \in 1..MaxStubs : GetNextResponseReads(caller, p, j)
    \/ \E caller \in Callers : GetNextResponseWrites(caller)

SpecResurrect == Init /\ [][NextResurrect]_vars

\* One process with its table and its notification handlers, and another
\* process that saves and deletes imposters on the same store.
NextInstances ==
    \/ \E config \in {c \in Configs : stubsOf(c) = <<>>} : InstanceAdd(config)
    \/ \E p \in Ports : InstanceDel(p)
    \/ InstanceDeleteAll
    \/ InstanceStopAll
    \/ StopAllSettles
    \/ InstanceLoadAll(Protocols)
    \/ InstanceDeliver
    \/ \E h \in 1..MaxHandlers : HandlerGets(h)
    \/ \E h \in 1..MaxHandlers, built \in BOOLEAN : HandlerLoads(h, built)
    \/ \E imp \in {i \in PeerImposters : i.port \in Ports} : PeerSaveImposter(imp)
    \/ \E p \in Ports : PeerDeleteImposter(p)
    \/ PeerDeleteAllImposters

SpecInstances == Init /\ [][NextInstances]_vars

\* A process that has called loadAll, and another process that saves and
\* deletes one imposter.
NextReloads ==
    \/ \E protocols \in {{"tcp"}, Protocols} : InstanceLoadAll(protocols)
    \/ InstanceDeliver
    \/ \E h \in 1..MaxHandlers : HandlerGets(h)
    \/ \E h \in 1..MaxHandlers, built \in BOOLEAN : HandlerLoads(h, built)
    \/ \E imp \in {i \in PeerImposters : i.port \in Ports} : PeerSaveImposter(imp)
    \/ \E p \in Ports : PeerDeleteImposter(p)

SpecReloads == Init /\ [][NextReloads]_vars

\* A process that has called loadAll and whose protocol always builds the
\* imposter, and another process that saves a new imposter and adds stubs to
\* it, no more often than the process can hold instances.  A notification
\* that has arrived is received, and a handler that can go on goes on.
NextPropagates ==
    \/ \E protocols \in {{"tcp"}, Protocols} : InstanceLoadAll(protocols)
    \/ InstanceDeliver
    \/ \E h \in 1..MaxHandlers : HandlerGets(h)
    \/ \E h \in 1..MaxHandlers : HandlerLoads(h, TRUE)
    \/ \E imp \in {i \in PeerImposters : i.port \in Ports} :
          ~IsSome(getImposter(Store, imp.port)) /\ PeerSaveImposter(imp)
    \/ \E p \in Ports, stub \in {st \in StubInputs : idsNeeded(st) = 1} :
          Len(getStubs(Store, p)) < MaxInstances - 1 /\ AddStubReads("peer", p, stub, None)
    \/ AddStubSaves("peer")

SpecPropagates ==
    /\ Init
    /\ [][NextPropagates]_vars
    /\ WF_vars(InstanceDeliver)
    /\ \A h \in 1..MaxHandlers : WF_vars(HandlerGets(h)) /\ WF_vars(HandlerLoads(h, TRUE))

----------------------------------------------------------------------------
\* Properties.

\* The stub the held handle is bound to, and its entry in history.
HeldStub == Val(Val(handle).stubId)
Matched == IsSome(handle) /\ Val(handle).success

\* C1: response cycling with repeats.  For a stub created with responses
\* r_0..r_(n-1), n >= 1, with repeat counts c_i >= 1 (1 when repeat is absent),
\* and nothing but nextResponse() done to it since, the k-th nextResponse()
\* (k = 0, 1, ...) returns the element at position k mod (c_0 + ... + c_(n-1))
\* of the sequence in which each r_i appears c_i times in declaration order.
C1_ResponseCycling ==
    LET RECURSIVE cycle(_)
        cycle(rs) ==
            IF rs = <<>> THEN <<>>
            ELSE [i \in 1..(IF Head(rs).repeat = 0 THEN 1 ELSE Head(rs).repeat) |-> Head(rs)]
                 \o cycle(Tail(rs))
    IN (last.op = "nextResponse" /\ ~last.threw /\ Matched /\ HeldStub \in DOMAIN history)
       => LET h == history[HeldStub]
              k == h.calls - 1
          IN (h.undisturbed /\ Len(h.declared) >= 1
              /\ \A i \in 1..Len(h.declared) : h.declared[i].repeat >= 0)
             => last.ret = Some(cycle(h.declared)[(k % Len(cycle(h.declared))) + 1])

\* A stub declared [p, r repeat 2] has served p, r, r and, wrapping, p again.
C1_Witness ==
    /\ last.op = "nextResponse" /\ ~last.threw /\ Matched /\ HeldStub \in DOMAIN history
    /\ history[HeldStub].undisturbed
    /\ Len(history[HeldStub].declared) = 2
    /\ history[HeldStub].declared[2].repeat = MaxRepeat
    /\ history[HeldStub].calls = MaxRepeat + 2
    /\ last.ret = Some(history[HeldStub].declared[1])

\* C2: round trip of add and get.  Once add(imposter) has resolved, get(port)
\* in the same process resolves to the port and protocol of the config and its
\* stubs in the same order, each with its predicates and its whole response
\* list in declaration order (the empty list for a stub declared without
\* responses) and without the storage's meta ids.
C2_AddGetRoundTrip ==
    [][\A config \in Configs :
          (last'.op = "add" /\ ImposterAdd(config))
          => get(Store', imposterFns', config.port)
               = [ret |-> Some([port |-> config.port, protocol |-> config.protocol,
                                stubs |-> [i \in 1..Len(stubsOf(config)) |->
                                             [predicates |-> stubsOf(config)[i].predicates,
                                              responses |-> responsesOf(stubsOf(config)[i]),
                                              matches |-> None]]]),
                  threw |-> FALSE]]_vars

\* get() has returned an imposter of MaxStubs stubs, one of them with two
\* responses, right after it was added.
C2_Witness ==
    /\ last.op = "get" /\ ~last.threw /\ IsSome(last.ret)
    /\ Len(Val(last.ret).stubs) = MaxStubs
    /\ \E i \in 1..MaxStubs : Len(Val(last.ret).stubs[i].responses) = 2
    /\ \E i \in 1..MaxStubs : IsSome(Val(last.ret).stubs[i].predicates)
    /\ idCounter = MaxIdCounter

\* C3: first-match semantics.  first(filter, startIndex) resolves to success
\* and a handle of the stub at the smallest index i >= startIndex of the stored
\* sequence whose predicates (or [] when it declares none) pass the filter, to
\* no success and the no-op handle exactly when there is no such index, and it
\* leaves the store as it was.
C3_FirstMatch ==
    [][\A p \in Ports, filter \in Filters, startIndex \in Indexes :
          (last'.op = "first" /\ StubsFirst(p, filter, startIndex))
          => LET stubs == getStubs(Store, p)
                 passes(i) == ApplyFilter(filter, IF IsSome(stubs[i + 1].predicates)
                                                   THEN Val(stubs[i + 1].predicates) ELSE <<>>)
                 matching == {i \in startIndex..(Len(stubs) - 1) : passes(i)}
                 least == CHOOSE i \in matching : \A j \in matching : i <= j
                 h == Val(handle')
             IN /\ IF matching = {}
                   THEN ~h.success /\ h.stubId = None
                   ELSE /\ h.success
                        /\ h.stubId = Some(stubs[least + 1].meta.id)
                        /\ h.predicates = stubs[least + 1].predicates
                /\ UNCHANGED storeVars]_vars

\* first() has matched the second stub of a sequence.
C3_Witness ==
    /\ last.op = "first" /\ Matched
    /\ Val(handle).matchedAt = Some(1)
    /\ Len(getStubs(Store, Val(handle).port)) = 2

\* C4: addResponse on a stub that was created without responses: the next
\* nextResponse() of a handle of that stub returns the added response.
C4_AddedResponseServedNext ==
    (last.op = "nextResponse" /\ ~last.threw /\ Matched /\ HeldStub \in DOMAIN history)
    => LET key == metaKey(Val(handle).port, HeldStub)
       IN (history[HeldStub].declared = <<>> /\ key \in DOMAIN meta
           /\ Len(meta[key].responseIds) = 1)
          => last.ret = getObject(response, meta[key].responseIds[1])

\* C5: cascade delete.  Once del(port) of an imposter that has a record has
\* resolved, the store holds no root record for the port, no meta of any of
\* its stubs, no response any of those metas listed, no match list of any of
\* its stubs, and count() is 0.
C5_CascadeDelete ==
    [][\A p \in Ports :
          (last'.op = "del" /\ ImposterDel(p) /\ IsSome(getImposter(Store, p)))
          => /\ p \notin DOMAIN imposter'
             /\ \A i \in 1..Len(getStubs(Store, p)) :
                   LET id == getStubs(Store, p)[i].meta.id
                       key == metaKey(p, id)
                   IN /\ key \notin DOMAIN meta'
                      /\ id \notin DOMAIN matches'
                      /\ key \in DOMAIN meta
                            => \A n \in 1..Len(meta[key].responseIds) :
                                  meta[key].responseIds[n] \notin DOMAIN response'
             /\ Len(getStubs(Store', p)) = 0]_vars

\* del() has deleted an imposter one of whose stubs held a response appended
\* by addResponse on top of the two it declared, and nothing is left.
C5_Witness ==
    /\ last.op = "del" /\ ~last.threw /\ IsSome(last.ret)
    /\ \E i \in 1..Len(Val(last.ret).stubs) : Len(Val(last.ret).stubs[i].responses) = 3
    /\ DOMAIN response = {}

\* C6: out-of-range index.  deleteAtIndex(index) and overwriteAtIndex(stub,
\* index) with index >= count() reject with 'no stub at index {index}', leave
\* every record as it was and publish nothing.
C6_OutOfRangeFails ==
    [][\A p \in Ports, index \in Indexes :
          (/\ index >= count(Store, p)
           /\ \/ last'.op = "deleteAtIndex" /\ StubsDeleteAtIndex(p, index)
              \/ /\ last'.op = "overwriteAtIndex"
                 /\ \E stub \in StubInputs : StubsOverwriteAtIndex(p, stub, index))
          => /\ last'.threw
             /\ last'.ret = Some(<<"no stub at index", index>>)
             /\ last'.published = <<>>
             /\ UNCHANGED storeVars]_vars

\* C7: stubIndex() of a response of a matched handle returns the position the
\* handle's stub has in the stored sequence when stubIndex() is called.
C7_StubIndexIsCurrent ==
    (last.op = "stubIndex" /\ ~last.threw /\ Matched)
    => \A i \in 1..Len(getStubs(Store, Val(handle).port)) :
          getStubs(Store, Val(handle).port)[i].meta.id = HeldStub => last.ret = Some(i - 1)

\* The stub was matched at index 0, another was inserted before it, and
\* stubIndex() answers 1.
C7_Witness ==
    /\ last.op = "stubIndex" /\ ~last.threw /\ Matched
    /\ Val(handle).matchedAt = Some(0)
    /\ last.ret = Some(1)
    /\ getStubs(Store, Val(handle).port)[2].meta.id = HeldStub

\* C8: deleteSavedProxyResponses removes the responses with a numeric
\* is._proxyResponseTime and no others, drops the stubs left without a
\* response, and keeps the other stubs in their order, each with its
\* predicates and its unmarked responses in their order.
C8_DeleteSavedProxyResponses ==
    [][\A p \in Ports :
          (last'.op = "deleteSavedProxyResponses" /\ StubsDeleteSavedProxyResponses(p))
          => LET before == toJSON(Store, p, FALSE)
                 unmarked(r) == ~r.proxyResponseTime
                 pruned == [i \in 1..Len(before) |->
                              [before[i] EXCEPT !.responses = SelectSeq(@, unmarked)]]
                 kept(stub) == Len(stub.responses) > 0
             IN toJSON(Store', p, FALSE) = SelectSeq(pruned, kept)]_vars

\* Two stubs are left after a recorded response was removed: the five ids of
\* the imposter and the four of the two stubs saved again.
C8_Witness ==
    /\ last.op = "deleteSavedProxyResponses"
    /\ Len(getStubs(Store, last.port)) = 2
    /\ idCounter = MaxRewriteIds
    /\ \A i \in 1..2 : Len(getResponses(Store, last.port, getStubs(Store, last.port)[i].meta.id)) = 1

\* C9: cursor invariant.  Every stored StubMeta has nextIndex an integer in
\* [0, len(orderWithRepeats)).
C9_CursorInRange ==
    \A key \in DOMAIN meta :
        meta[key].nextIndex \in 0..(Len(meta[key].orderWithRepeats) - 1)

\* C10: order-table invariant.  Every stored StubMeta with responseIds has an
\* orderWithRepeats that is not empty, holds only indexes into responseIds and
\* holds every one of them as one run.
C10_OrderTable ==
    \A key \in DOMAIN meta :
        LET ids == meta[key].responseIds
            order == meta[key].orderWithRepeats
        IN Len(ids) > 0
           => /\ Len(order) > 0
              /\ \A e \in 1..Len(order) : order[e] \in 0..(Len(ids) - 1)
              /\ \A i \in 0..(Len(ids) - 1) :
                    \E a \in 1..Len(order), b \in 1..Len(order) :
                        /\ a <= b
                        /\ \A e \in 1..Len(order) : (order[e] = i) <=> (a <= e /\ e <= b)

\* C11: missing meta.  When the stub of a matched handle has no meta record
\* as the call runs, nextResponse() rejects, writes nothing to the store and
\* leaves the request counter alone, and addResponse() resolves to null and
\* writes no response record.
C11_MissingMeta ==
    [][(Matched /\ metaKey(Val(handle).port, HeldStub) \notin DOMAIN meta)
       => /\ (last'.op = "nextResponse" /\ HandleNextResponse)
                => /\ last'.threw
                   /\ UNCHANGED storeVars
          /\ \A resp \in Responses :
                (last'.op = "addResponse" /\ HandleAddResponse(resp))
                => /\ ~last'.threw
                   /\ last'.ret = None
                   /\ response' = response
                   /\ UNCHANGED storeVars]_vars

\* nextResponse() has rejected on the handle of a stub that served requests
\* before its imposter was deleted; the counter still holds them.
C11_Witness ==
    /\ last.op = "nextResponse" /\ last.threw /\ Matched
    /\ metaKey(Val(handle).port, HeldStub) \notin DOMAIN meta
    /\ getRequestCounter(Store, Val(handle).port) = Some(MaxRepeat)

\* C12: the no-match handle never touches the store.  Its addResponse
\* resolves with no value, its nextResponse resolves to the empty response
\* { is: {} } whose stubIndex() resolves to 0, its recordMatch does nothing;
\* none of them writes a record, counts a request or publishes a message.
C12_NoMatchHandle ==
    [][(IsSome(handle) /\ ~Val(handle).success)
       => /\ (last'.op = "nextResponse" /\ HandleNextResponse)
                => ~last'.threw /\ last'.ret = Some(EmptyResponse)
          /\ (last'.op = "stubIndex" /\ ResponseStubIndex)
                => ~last'.threw /\ last'.ret = Some(0)
          /\ \A resp \in Responses :
                (last'.op = "addResponse" /\ HandleAddResponse(resp))
                => ~last'.threw /\ last'.ret = None
          /\ (last'.op = "recordMatch" /\ HandleRecordMatch) => ~last'.threw
          /\ last'.op \in {"nextResponse", "stubIndex", "addResponse", "recordMatch"}
                => /\ UNCHANGED storeVars
                   /\ last'.published = <<>>
                   /\ inbox' = inbox]_vars

\* stubIndex() of the no-op handle's response has answered 0 for an imposter
\* of MaxStubs stubs, one of which has a match on record.
C12_Witness ==
    /\ last.op = "stubIndex" /\ IsSome(handle) /\ ~Val(handle).success
    /\ last.ret = Some(0)
    /\ count(Store, Val(handle).port) = MaxStubs
    /\ DOMAIN matches /= {}

\* C13: toJSON() lists, per stub in stored order, the predicates and the
\* responses in the order they were declared or appended, one entry per
\* response whatever its repeat count; nextResponse() calls leave the result
\* as it was; the match list shows only with options.debug.
C13_ToJSONIgnoresCursor ==
    [][\A p \in Ports :
          LET stubs == getStubs(Store', p)
          IN last'.op \in {"add", "nextResponse", "addResponse", "recordMatch"} =>
             /\ (last'.op = "nextResponse")
                   => /\ toJSON(Store', p, FALSE) = toJSON(Store, p, FALSE)
                      /\ toJSON(Store', p, TRUE) = toJSON(Store, p, TRUE)
             /\ \A config \in Configs :
                   (last'.op = "add" /\ config.port = p /\ ImposterAdd(config))
                   => toJSON(Store', p, FALSE)
                        = [i \in 1..Len(stubsOf(config)) |->
                             [predicates |-> stubsOf(config)[i].predicates,
                              responses |-> responsesOf(stubsOf(config)[i]),
                              matches |-> None]]
             /\ \A resp \in Responses :
                   (/\ last'.op = "addResponse" /\ HandleAddResponse(resp)
                    /\ Matched /\ Val(handle).port = p
                    /\ metaKey(p, HeldStub) \in DOMAIN meta)
                   => toJSON(Store', p, FALSE)
                        = [i \in 1..Len(stubs) |->
                             IF stubs[i].meta.id = HeldStub
                             THEN [toJSON(Store, p, FALSE)[i] EXCEPT !.responses = Append(@, resp)]
                             ELSE toJSON(Store, p, FALSE)[i]]
             /\ toJSON(Store', p, FALSE)
                  = [i \in 1..Len(stubs) |->
                       [predicates |-> stubs[i].predicates,
                        responses |-> getResponses(Store', p, stubs[i].meta.id),
                        matches |-> None]]
             /\ toJSON(Store', p, TRUE)
                  = [i \in 1..Len(stubs) |->
                       [predicates |-> stubs[i].predicates,
                        responses |-> getResponses(Store', p, stubs[i].meta.id),
                        matches |-> getObject(matches', stubs[i].meta.id)]]]_vars

\* nextResponse() has moved the cursor of a stub that holds a response appended
\* to the two it declared and has a match on record.
C13_Witness ==
    /\ last.op = "nextResponse" /\ ~last.threw /\ Matched
    /\ metaKey(Val(handle).port, HeldStub) \in DOMAIN meta
    /\ Len(meta[metaKey(Val(handle).port, HeldStub)].responseIds) = 3
    /\ meta[metaKey(Val(handle).port, HeldStub)].nextIndex = 1
    /\ HeldStub \in DOMAIN matches

\* C14: get(id) resolves to null exactly when the store holds no root record
\* for id, and otherwise to the stored imposter with its stub JSON, whatever
\* the table of the process holds.
C14_GetReadsTheStore ==
    [][\A p \in AllPorts :
          (last'.op = "get" /\ ImposterGet(p))
          => /\ ~last'.threw
             /\ last'.ret = IF ~IsSome(getImposter(Store, p)) THEN None
                            ELSE Some([port |-> Val(getImposter(Store, p)).port,
                                       protocol |-> Val(getImposter(Store, p)).protocol,
                                       stubs |-> toJSON(Store, p, FALSE)])]_vars

C16_LifecycleAsClaimed ==
    [][\A p \in AllPorts :
          /\ exists(imposterFns', Num(p)) = (p \in imposterFns')
          /\ exists(imposterFns', Str(ToString(p))) = (p \in imposterFns')
          /\ (p \notin imposterFns /\ p \in imposterFns')
                => last'.op \in {"add", "loadAll", "imposter_change"}
          /\ (p \in imposterFns /\ p \notin imposterFns')
                => last'.op \in {"del", "deleteAll", "stopAll",
                                 "imposter_delete", "all_imposters_delete"}]_vars

\* C16, amended: the same, and a port leaves the table by a change
\* notification too, whose handler tears the imposter down before it reloads it.
C16_Lifecycle ==
    [][\A p \in AllPorts :
          /\ exists(imposterFns', Num(p)) = (p \in imposterFns')
          /\ exists(imposterFns', Str(ToString(p))) = (p \in imposterFns')
          /\ (p \notin imposterFns /\ p \in imposterFns')
                => last'.op \in {"add", "loadAll", "imposter_change"}
          /\ (p \in imposterFns /\ p \notin imposterFns')
                => last'.op \in {"del", "deleteAll", "stopAll", "imposter_delete",
                                 "all_imposters_delete", "imposter_change"}]_vars

\* A change notification has torn down the imposter of port 1, whose record
\* is still stored, and has not loaded it again.
C16_Witness ==
    /\ last.op = "imposter_change" /\ last.port = 1
    /\ stopped = {1}
    /\ 1 \notin imposterFns
    /\ 1 \in DOMAIN imposter
    /\ ~exists(imposterFns, Str("1"))

\* C17: all() resolves to one entry per port in the table of the process, each
\* what get(port) resolves to, and to nothing for a stored imposter that is not
\* in the table; to [] when the table is empty, also while a stopAll() that
\* was not awaited is under way, and when the store client is closed.
C17_All ==
    [][(last'.op = "all" /\ RepoAll)
       => /\ ~last'.threw
          /\ IF closed THEN last'.ret = <<>>
             ELSE /\ Len(last'.ret) = Cardinality(imposterFns)
                  /\ \A i \in 1..Len(last'.ret) :
                        IsSome(last'.ret[i])
                        => /\ Val(last'.ret[i]).port \in imposterFns
                           /\ last'.ret[i] = get(Store, imposterFns, Val(last'.ret[i]).port).ret
                           /\ \A j \in 1..Len(last'.ret) :
                                 (IsSome(last'.ret[j])
                                  /\ Val(last'.ret[j]).port = Val(last'.ret[i]).port) => j = i
                  /\ \A q \in imposterFns :
                        IsSome(getImposter(Store, q))
                        => \E i \in 1..Len(last'.ret) :
                              IsSome(last'.ret[i]) /\ Val(last'.ret[i]).port = q]_vars

\* all() has returned the one imposter of the table while the store holds a
\* second one, written by the other process.
C17_Witness ==
    /\ last.op = "all" /\ ~last.threw
    /\ Len(last.ret) = 1 /\ IsSome(last.ret[1])
    /\ Len(Val(last.ret[1]).stubs) = 1
    /\ DOMAIN imposter = AllPorts
    /\ imposterFns = {1}
    /\ ~closed

\* C18: once deleteAll() has resolved, stop() has been invoked for every
\* imposter that was in the table, the table is empty and all() returns [],
\* the six collections are empty, and one all_imposters_delete message has
\* been published.
C18_DeleteAll ==
    [][(last'.op = "deleteAll" /\ RepoDeleteAll)
       => /\ ~last'.threw
          /\ stopped' = imposterFns
          /\ imposterFns' = {}
          /\ all(Store', imposterFns', closed') = [ret |-> <<>>, threw |-> FALSE]
          /\ DOMAIN imposter' = {}
          /\ DOMAIN matches' = {}
          /\ DOMAIN meta' = {}
          /\ DOMAIN requestCounter' = {}
          /\ DOMAIN requests' = {}
          /\ DOMAIN response' = {}
          /\ Len(last'.published) = 1
          /\ last'.published[1][1] = "all_imposters_delete"]_vars

\* deleteAll() has stopped two imposters and emptied the store; the handle
\* still names a stub of theirs that had served a response.
C18_Witness ==
    /\ last.op = "deleteAll"
    /\ stopped = AllPorts
    /\ Matched /\ Val(handle).responded
    /\ idCounter > 0
    /\ DOMAIN imposter = {} /\ DOMAIN meta = {} /\ DOMAIN requestCounter = {}

\* C19: once loadAll(protocols) has resolved in a process whose table was
\* empty, the table holds exactly the stored imposters whose protocol is among
\* protocols and whose createImposterFrom resolved (exists(port) is true for
\* them and all() returns them), whatever happened to the others, and the
\* process is subscribed to the three channels.
C19_LoadAll ==
    [][\A protocols \in SUBSET Protocols, failing \in SUBSET AllPorts :
          (last'.op = "loadAll" /\ RepoLoadAll(protocols, failing) /\ imposterFns = {})
          => LET loaded == {p \in DOMAIN imposter :
                              imposter[p].protocol \in protocols /\ p \notin failing}
                 listed == all(Store', imposterFns', closed')
             IN /\ ~last'.threw
                /\ imposterFns' = loaded
                /\ \A p \in AllPorts : exists(imposterFns', Num(p)) = (p \in loaded)
                /\ ~listed.threw
                /\ Len(listed.ret) = Cardinality(loaded)
                /\ {Val(listed.ret[i]).port : i \in 1..Len(listed.ret)} = loaded
                /\ subscriptions' = Channels]_vars

\* loadAll() has found two stored imposters, createImposterFrom has rejected
\* for the one on port 1, and the one on port 2 is loaded.
C19_Witness ==
    /\ last.op = "loadAll"
    /\ DOMAIN imposter = AllPorts
    /\ appProtocols = Protocols
    /\ imposterFns = {2}
    /\ subscriptions = Channels
    /\ stopped = {}

\* C20: on an existing imposter with stubs s_0..s_(n-1), add(stub) puts the
\* new stub after s_(n-1) and insertAtIndex(stub, i), 0 <= i <= n, puts it
\* before s_i; the stubs that were there keep their ids and predicates, their
\* meta with its nextIndex, their responses and their match lists, in their
\* order, and count() grows by exactly 1.
C20_PositionalInsert ==
    [][\A p \in Ports, stub \in StubInputs, index \in {None} \cup {Some(i) : i \in Indexes} :
          LET old == getStubs(Store, p)
              new == getStubs(Store', p)
              n   == Len(old)
              at  == IF IsSome(index) THEN Val(index) ELSE n
              op  == IF IsSome(index) THEN "insertAtIndex" ELSE "stubs.add"
              was(j) == old[j].meta.id
          IN (/\ last'.op = op
              /\ StubsInsert(op, p, stub, index)
              /\ IsSome(getImposter(Store, p))
              /\ at <= n)
             => /\ ~last'.threw
                /\ count(Store', p) = count(Store, p) + 1
                /\ Len(new) = n + 1
                /\ \A j \in 1..at : new[j] = old[j]
                /\ \A j \in (at + 1)..n : new[j + 1] = old[j]
                /\ new[at + 1].meta.id \notin {was(j) : j \in 1..n}
                /\ new[at + 1].predicates = stub.predicates
                /\ getResponses(Store', p, new[at + 1].meta.id) = responsesOf(stub)
                /\ \A j \in 1..n :
                      /\ getMeta(Store', p, was(j)) = getMeta(Store, p, was(j))
                      /\ getResponses(Store', p, was(j)) = getResponses(Store, p, was(j))
                      /\ getMatches(Store', was(j)) = getMatches(Store, was(j))]_vars

\* insertAtIndex(stub, 0) has put a new stub before one whose cursor had
\* advanced and that had a match recorded: the older stub is at index 1 with
\* its cursor and its match.
C20_Witness ==
    /\ last.op = "insertAtIndex"
    /\ Len(getStubs(Store, 1)) = 2
    /\ LET stubs == getStubs(Store, 1)
       IN /\ stubs[1].meta.id[2] > stubs[2].meta.id[2]
          /\ IsSome(getMeta(Store, 1, stubs[2].meta.id))
          /\ Val(getMeta(Store, 1, stubs[2].meta.id)).nextIndex = 1
          /\ IsSome(getMatches(Store, stubs[2].meta.id))

\* C21: deleteAtIndex(i) with a stub at index i takes exactly that stub out
\* of the sequence; the other stubs keep their order, ids, meta with its
\* nextIndex, responses and match lists; the meta of the removed stub, every
\* response its meta listed and its match list are deleted.
C21_DeleteAtIndex ==
    [][\A p \in Ports, index \in Indexes :
          LET old == getStubs(Store, p)
              new == getStubs(Store', p)
              n   == Len(old)
              was(j) == old[j].meta.id
              gone == was(index + 1)
              m   == getMeta(Store, p, gone)
          IN (last'.op = "deleteAtIndex" /\ StubsDeleteAtIndex(p, index) /\ index < n)
             => /\ ~last'.threw
                /\ Len(new) = n - 1
                /\ \A j \in 1..index : new[j] = old[j]
                /\ \A j \in (index + 2)..n : new[j - 1] = old[j]
                /\ \A j \in (1..n) \ {index + 1} :
                      /\ getMeta(Store', p, was(j)) = getMeta(Store, p, was(j))
                      /\ getResponses(Store', p, was(j)) = getResponses(Store, p, was(j))
                      /\ getMatches(Store', was(j)) = getMatches(Store, was(j))
                /\ ~IsSome(getMeta(Store', p, gone))
                /\ IsSome(m) => \A i \in 1..Len(Val(m).responseIds) :
                                    Val(m).responseIds[i] \notin DOMAIN response'
                /\ ~IsSome(getMatches(Store', gone))]_vars

\* deleteAtIndex(0) has removed the first of two stubs, the one the held
\* handle had matched and served a response from; the stub that is left keeps
\* its responses and its recorded match, and its meta is the only one stored.
C21_Witness ==
    /\ last.op = "deleteAtIndex" /\ ~last.threw
    /\ Len(getStubs(Store, 1)) = 1
    /\ Len(getResponses(Store, 1, getStubs(Store, 1)[1].meta.id)) > 0
    /\ IsSome(getMatches(Store, getStubs(Store, 1)[1].meta.id))
    /\ Matched /\ Val(handle).responded /\ Val(handle).matchedAt = Some(0)
    /\ Val(handle).stubId /= Some(getStubs(Store, 1)[1].meta.id)
    /\ Cardinality(DOMAIN meta) = 1

\* The responses the metas of the listed stubs of an imposter refer to.
ListedResponses(w, p) ==
    UNION { {Val(getMeta(w, p, getStubs(w, p)[j].meta.id)).responseIds[i] :
                i \in 1..Len(Val(getMeta(w, p, getStubs(w, p)[j].meta.id)).responseIds)} :
            j \in {k \in 1..Len(getStubs(w, p)) : IsSome(getMeta(w, p, getStubs(w, p)[k].meta.id))} }

\* Every meta, response and match list in the store belongs to a stub that is
\* in the sequence of imposter p.
OnlyListed(w, p) ==
    LET ids == {getStubs(w, p)[j].meta.id : j \in 1..Len(getStubs(w, p))}
    IN /\ DOMAIN w.meta \subseteq {metaKey(p, id) : id \in ids}
       /\ DOMAIN w.matches \subseteq ids
       /\ DOMAIN w.response \subseteq ListedResponses(w, p)

\* C22: overwriteAll(newStubs) on an existing imposter makes the sequence the
\* given stubs in input order, each with an id never used before, nextIndex 0,
\* its declared responses and no match list; the meta, the responses and the
\* match list of every stub that was in the sequence are deleted; after
\* overwriteAll([]) the imposter has no stub and no record is left of its stubs.
C22_OverwriteAll ==
    [][\A p \in Ports, stubs \in StubLists :
          LET old == getStubs(Store, p)
              new == getStubs(Store', p)
              was(j) == old[j].meta.id
              now(i) == new[i].meta.id
          IN (/\ last'.op = "overwriteAll"
              /\ StubsOverwriteAll(p, stubs)
              /\ IsSome(getImposter(Store, p)))
             => /\ ~last'.threw
                /\ Len(new) = Len(stubs)
                /\ count(Store', p) = Len(stubs)
                /\ \A i \in 1..Len(stubs) :
                      /\ new[i].predicates = stubs[i].predicates
                      /\ now(i)[2] > idCounter
                      /\ \A k \in 1..Len(stubs) : now(k) = now(i) => k = i
                      /\ IsSome(getMeta(Store', p, now(i)))
                      /\ Val(getMeta(Store', p, now(i))).nextIndex = 0
                      /\ getResponses(Store', p, now(i)) = responsesOf(stubs[i])
                      /\ ~IsSome(getMatches(Store', now(i)))
                /\ \A j \in 1..Len(old) :
                      /\ ~IsSome(getMeta(Store', p, was(j)))
                      /\ ~IsSome(getMatches(Store', was(j)))
                      /\ IsSome(getMeta(Store, p, was(j)))
                         => \A i \in 1..Len(Val(getMeta(Store, p, was(j))).responseIds) :
                               Val(getMeta(Store, p, was(j))).responseIds[i] \notin DOMAIN response'
                /\ OnlyListed(Store, p) => OnlyListed(Store', p)
                /\ (stubs = <<>> /\ OnlyListed(Store, p))
                   => /\ DOMAIN meta' = {}
                      /\ DOMAIN response' = {}
                      /\ DOMAIN matches' = {}]_vars

\* overwriteAll has replaced the stub the held handle had matched and served
\* a response from by a stub with two responses: the store holds the records
\* of the new stub and nothing else.
C22_Witness ==
    /\ last.op = "overwriteAll"
    /\ Len(getStubs(Store, 1)) = 1
    /\ Matched /\ Val(handle).responded
    /\ Val(handle).stubId /= Some(getStubs(Store, 1)[1].meta.id)
    /\ idCounter = MaxIdCounter
    /\ Cardinality(DOMAIN meta) = 1
    /\ Cardinality(DOMAIN response) = 2
    /\ DOMAIN matches = {}

\* C23: overwriteAtIndex(stub, i) on an index that holds a stub commits in
\* two steps.  Once deleteAtIndex(i) has committed and until insertAtIndex
\* runs, the stored sequence is the one found without its entry i, and count(),
\* first() and toJSON() show it; when insertAtIndex(stub, i) has committed, the
\* sequence has the length found, the new stub at i and the other stubs in
\* place; when the second step never runs, the stub stays missing.
C23_OverwriteAtIndex ==
    [][/\ (IsSome(overwriting') /\ Val(overwriting').index < Len(Val(overwriting').before))
          => LET o == Val(overwriting')
             IN /\ getStubs(Store', o.port) = spliceOut(o.before, o.index)
                /\ count(Store', o.port) = Len(o.before) - 1
                /\ Len(toJSON(Store', o.port, FALSE)) = Len(o.before) - 1
                /\ ~IsSome(getMeta(Store', o.port, o.before[o.index + 1].meta.id))
       /\ (IsSome(overwriting) /\ Val(overwriting).index < Len(Val(overwriting).before))
          => LET o == Val(overwriting)
                 i == o.index
                 n == Len(o.before)
                 gone == o.before[i + 1].meta.id
                 new == getStubs(Store', o.port)
             IN /\ (last'.op = "count" /\ StubsCount(o.port)) => last'.ret = n - 1
                /\ \A startIndex \in Indexes :
                      (last'.op = "first" /\ StubsFirst(o.port, "all", startIndex))
                      => /\ Val(handle').stubId /= Some(gone)
                         /\ Val(handle').success = (startIndex < n - 1)
                /\ (last'.op = "overwriteAtIndex" /\ OverwriteInserts)
                   => /\ ~last'.threw
                      /\ Len(new) = n
                      /\ \A j \in (1..n) \ {i + 1} : new[j] = o.before[j]
                      /\ new[i + 1].meta.id[2] > idCounter
                      /\ new[i + 1].predicates = o.stub.predicates
                      /\ getResponses(Store', o.port, new[i + 1].meta.id) = responsesOf(o.stub)
                /\ (last'.op = "overwriteAtIndex abandoned" /\ OverwriteAbandoned)
                   => /\ getStubs(Store', o.port) = spliceOut(o.before, i)
                      /\ ~IsSome(getMeta(Store', o.port, gone))]_vars

\* An overwriteAtIndex(stub, 0) on a sequence of two stubs is between its two
\* steps, and count() has just returned 1.
C23_Witness ==
    /\ IsSome(overwriting)
    /\ Val(overwriting).index = 0
    /\ Len(Val(overwriting).before) = 2
    /\ last.op = "count" /\ last.ret = 1
    /\ Len(getStubs(Store, 1)) = 1

\* C24: loadRequests() returns the stored log of the imposter; the log is
\* empty at first, each awaited addRequest(request) puts the request with a
\* timestamp at its end, for a port with or without an imposter record, only
\* deleteSavedRequests(), the deletion of the imposter and deleteAll() empty
\* it, and no other step changes it.  So loadRequests() returns the requests
\* added since the log was last emptied, all of them and in call order.
C24_RequestLog ==
    [][\A p \in AllPorts :
          LET log == getRequests(Store, p)
              after == getRequests(Store', p)
              adding == \E r \in MbRequests, now \in Times :
                           last'.op = "addRequest" /\ StubsLogRequest(p, r, now)
          IN /\ (last'.op = "loadRequests" /\ StubsLoadRequests(p))
                => ~last'.threw /\ last'.ret = log /\ after = log
             /\ \A r \in MbRequests, now \in Times :
                   (last'.op = "addRequest" /\ StubsLogRequest(p, r, now))
                   => /\ ~last'.threw
                      /\ after = Append(log, [request |-> r, timestamp |-> now])
             /\ (last'.op = "deleteSavedRequests" /\ StubsDeleteSavedRequests(p)) => after = <<>>
             /\ (last'.op = "del" /\ ImposterDel(p) /\ p \in imposterFns) => after = <<>>
             /\ (last'.op = "deleteAll" /\ RepoDeleteAll) => after = <<>>
             /\ ~(\/ adding
                  \/ last'.op = "deleteSavedRequests" /\ last'.port = p
                  \/ last'.op = "del" /\ last'.port = p
                  \/ last'.op = "deleteAll")
                => after = log]_vars

\* loadRequests() has returned two requests in the order they were added,
\* for a port that has no imposter record.
C24_Witness ==
    /\ last.op = "loadRequests" /\ last.port = 2
    /\ ~IsSome(getImposter(Store, 2))
    /\ Len(last.ret) = 2
    /\ last.ret[1].request = "b" /\ last.ret[2].request = "a"
    /\ last.ret[1].timestamp = 1 /\ last.ret[2].timestamp = 2
    /\ getRequests(Store, 1) = <<>>

\* A nextResponse() on a matched handle of imposter p completes in this step:
\* in one piece, with its second half, or in the other process.
Completes(p) ==
    \/ /\ last'.op = "nextResponse" /\ ~last'.threw
       /\ HandleNextResponse /\ Matched /\ Val(handle).port = p
    \/ /\ last'.op = "nextResponse" /\ ~last'.threw
       /\ NextResponseCounts /\ IsSome(responding) /\ Val(responding).port = p
    \/ PeerNextResponse(p)

\* C25: getNumberOfRequests() of an imposter is 0 at first and after
\* deleteAll(), goes up by exactly one with every nextResponse() that completes
\* on a matched handle of the imposter, in this process or another and with
\* other calls between its two awaits, and is changed by no other step: not by
\* nextResponse() on the no-match handle, not by one that rejects, not by the
\* deletion of the imposter.  It never goes down except by deleteAll().
C25_RequestCounter ==
    [][\A p \in AllPorts :
          LET n == getNumberOfRequests(Store, p)
              after == getNumberOfRequests(Store', p)
          IN /\ last.op = "create" => n = 0
             /\ Completes(p) => after = n + 1
             /\ (last'.op = "deleteAll" /\ RepoDeleteAll) => after = 0
             /\ (last'.op = "getNumberOfRequests" /\ StubsGetNumberOfRequests(p))
                => last'.ret = n /\ after = n
             /\ ~(Completes(p) \/ (last'.op = "deleteAll" /\ RepoDeleteAll)) => after = n
             /\ after < n => (last'.op = "deleteAll" /\ RepoDeleteAll)]_vars

\* getNumberOfRequests() returns 3 for an imposter that was deleted after
\* three responses were served, and the no-match handle of the other port has
\* served a response that was not counted.
C25_Witness ==
    /\ last.op = "getNumberOfRequests" /\ last.port = 1 /\ last.ret = 3
    /\ ~IsSome(getImposter(Store, 1))
    /\ IsSome(handle) /\ ~Val(handle).success /\ Val(handle).responded
    /\ getNumberOfRequests(Store, 2) = 0

\* C26: when the subscriber of the process hands a message to the callback of
\* its channel, the handler runs with the payload if another client published
\* the message, and does not run if the client of the process published it:
\* the table, the imposters and the client are left as they were.  The
\* messages of the process's own saveImposter, deleteImposter and
\* deleteAllImposters do reach its subscriber, and are dropped there.
C26_SelfOrigin ==
    [][/\ \A built \in BOOLEAN :
             (inbox /= <<>> /\ last'.op \in Channels \cup {"ignored"} /\ Deliver(built))
             => LET message == Head(inbox)
                IN /\ message.clientId = "self"
                      => /\ last'.op = "ignored"
                         /\ imposterFns' = imposterFns
                         /\ stopped' = stopped
                         /\ closed' = closed
                   /\ (message.clientId /= "self" /\ message.channel \in subscriptions)
                      => /\ last'.op = message.channel
                         /\ last'.port = message.payload
                         /\ message.channel = "imposter_delete"
                            => /\ imposterFns' = imposterFns \ {message.payload}
                               /\ stopped' = imposterFns \cap {message.payload}
                         /\ message.channel = "all_imposters_delete"
                            => imposterFns' = {} /\ stopped' = imposterFns
                         /\ message.channel = "imposter_change"
                            => (message.payload \in imposterFns => message.payload \in stopped')
       /\ (last'.op \in {"add", "del", "deleteAll"} /\ last' /= last)
          => inbox' = received(inbox, listening, "self", last'.published)]_vars

\* The subscriber has dropped the imposter_change message of the process's own
\* add: the imposter is in the table and was not stopped.
C26_Witness ==
    /\ last.op = "ignored" /\ last.port = 1
    /\ subscriptions = Channels
    /\ imposterFns = {1}
    /\ stopped = {}
    /\ IsSome(getImposter(Store, 1))

\* C27: once unsubscribe(channel) has been called, and until the channel is
\* subscribed again, no callback is registered for the channel, also when the
\* subscribe before it had not resolved yet, and the callback is not invoked
\* for a message published on the channel after the call.
C27_UnsubscribeStops ==
    [][/\ \A channel \in unsubscribed' : channel \notin subscriptions'
       /\ (inbox /= <<>> /\ last'.op = "callback" /\ SubscriberOnMessage)
          => ~(Head(inbox).payload = "after" /\ Head(inbox).channel \in unsubscribed)]_vars

\* C28: no two calls of _generateId, of one ImposterStorage or of two, in one
\* process or in two, return the same id.
C28_UniqueIds ==
    \A a \in issued, b \in issued : a.id = b.id => (a.by = b.by /\ a.call = b.call)

\* C29: store failure on a write path.  A write operation during which the
\* store command fails (saveImposter, _saveResponse, _saveMeta, addRequest,
\* recordMatch, and stubs.add, addResponse, nextResponse built on them)
\* rejects; a read operation does not reject and resolves to null or to the
\* empty list.  A step that logs an error of the store client is a call
\* during which a store command failed.
C29_WriteFailureRejects ==
    [][Len(errors') > Len(errors)
       => IF last'.op \in {"getImposter", "getAllImposters"}
          THEN ~last'.threw /\ last'.ret = None
          ELSE last'.threw]_vars

\* C30: atomic append.  When an addRequest or a recordMatch completes (its
\* pushToObject leaves the calls in flight), the stored list is the list as
\* it was just before with the item at its end, whatever other appends to
\* the same key were in flight: no item another append has put there is lost.
C30_AtomicAppend ==
    [][\A call \in DOMAIN pushing :
          call \notin DOMAIN pushing'
          => LET push == pushing[call]
                 before == IF push.type = "requests" THEN requests ELSE matches
                 after == IF push.type = "requests" THEN requests' ELSE matches'
             IN /\ push.id \in DOMAIN after
                /\ after[push.id] = Append(IF push.id \in DOMAIN before THEN before[push.id] ELSE <<>>,
                                           push.obj)]_vars

C35_MissingImposterNoOp ==
    [][\A p \in AllPorts :
          (/\ ~IsSome(getImposter(Store, p))
           /\ last'.op \in {"stubs.add", "insertAtIndex", "overwriteAll"}
           /\ last'.port = p)
          => /\ ~last'.threw
             /\ last'.published = <<>>
             /\ UNCHANGED <<imposter, meta, response, matches, requests, requestCounter, inbox>>]_vars

\* insertAtIndex was called for port 2, which has no record, while port 1
\* has an imposter with stubs.
C35_Witness ==
    /\ last.op = "insertAtIndex" /\ last.port = 2
    /\ ~IsSome(getImposter(Store, 2))
    /\ count(Store, 1) > 0

\* C39: referential integrity at rest.  Between calls, the meta hash holds
\* one record imposterId:stubId for each stub listed in a stored imposter and
\* no other, and the response hash holds the ids listed in the responseIds of
\* those metas and no other.
C39_ReferentialIntegrity ==
    /\ DOMAIN meta = UNION {{metaKey(id, imposter[id].stubs[i].meta.id) :
                                i \in 1..Len(imposter[id].stubs)} : id \in DOMAIN imposter}
    /\ DOMAIN response = UNION {{meta[key].responseIds[j] : j \in 1..Len(meta[key].responseIds)} :
                                   key \in DOMAIN meta}

\* C31: lost update on the stub list.  An addStub saves the imposter as it
\* read it with its own stub put in: what another addStub has saved since it
\* read is written over, and no meta or response is deleted by the save, so
\* that the records of a stub written over stay in the store, listed by no
\* imposter.
C31_LostUpdate ==
    [][\A caller \in DOMAIN calls :
          (caller \notin DOMAIN calls' /\ calls[caller].op = "addStub")
          => /\ imposter'[calls[caller].port].stubs
                = IF IsSome(calls[caller].index)
                  THEN spliceIn(calls[caller].imposter.stubs, Val(calls[caller].index),
                                calls[caller].def)
                  ELSE Append(calls[caller].imposter.stubs, calls[caller].def)
             /\ meta' = meta
             /\ response' = response]_vars

\* Both processes have added a stub to an imposter that had none; the stub
\* list holds one stub and the store holds the metas of two.
C31_Witness ==
    /\ calls = NoFields
    /\ last.op = "addStub"
    /\ Len(getStubs(Store, 1)) = 1
    /\ Cardinality({key \in DOMAIN meta : key[1] = 1}) = 2
    /\ Cardinality(DOMAIN response) = 2

\* C32: the cursor advance is a read-modify-write that is not atomic.  For a
\* stub whose order table is not empty, a getNextResponse that completes
\* returns the response of the slot under the cursor it read and stores that
\* cursor plus one modulo the length of the table.  When the stored meta is
\* the one it read (no other call wrote in between) the stored cursor goes up
\* by one; when another call that read the same meta has written already, it
\* returns the same slot as that call and the stored cursor stays one past
\* the cursor read: up by one, not two.
C32_CursorAdvance ==
    [][\A caller \in DOMAIN calls :
          (/\ caller \notin DOMAIN calls'
           /\ calls[caller].op = "getNextResponse"
           /\ Len(calls[caller].meta.orderWithRepeats) >= 1)
          => LET c == calls[caller]
                 key == metaKey(c.port, c.stubId)
                 n == Len(c.meta.orderWithRepeats)
                 slot == ToNumber(c.meta.nextIndex) % n
                 moved == [c.meta EXCEPT !.nextIndex = (ToNumber(c.meta.nextIndex) + 1) % n]
             IN /\ last'.op = "getNextResponse" /\ ~last'.threw
                /\ last'.ret = getResponse(Store, Some(c.meta.responseIds[c.meta.orderWithRepeats[slot + 1] + 1]))
                /\ meta'[key] = moved
                /\ (key \in DOMAIN meta /\ meta[key] = c.meta)
                   => meta'[key].nextIndex = (ToNumber(meta[key].nextIndex) + 1) % n
                /\ (key \in DOMAIN meta /\ meta[key] = moved)
                   => meta'[key] = meta[key]]_vars

\* One of two overlapping calls on a stub with two slots has completed: it
\* moved the stored cursor from 0 to 1, and the other still holds the meta
\* with the cursor at 0.
C32_Witness ==
    /\ last.op = "getNextResponse" /\ ~last.threw
    /\ \E caller \in DOMAIN calls :
          /\ calls[caller].op = "getNextResponse"
          /\ Len(calls[caller].meta.orderWithRepeats) >= 2
          /\ calls[caller].meta.nextIndex = 0
          /\ metaKey(calls[caller].port, calls[caller].stubId) \in DOMAIN meta
          /\ meta[metaKey(calls[caller].port, calls[caller].stubId)].nextIndex = 1

\* C36: a deleted stub does not come back.  Every stored meta record belongs
\* to a stub that the stored record of its imposter lists, and every stored
\* response record is named by a stored meta record, in every state, whatever
\* calls were in flight while stubs were deleted.
C36_NoResurrection ==
    /\ \A key \in DOMAIN meta :
          /\ key[1] \in DOMAIN imposter
          /\ \E i \in 1..Len(imposter[key[1]].stubs) :
                metaKey(key[1], imposter[key[1]].stubs[i].meta.id) = key
    /\ \A id \in DOMAIN response :
          \E key \in DOMAIN meta :
             \E j \in 1..Len(meta[key].responseIds) : meta[key].responseIds[j] = id

\* C33: teardown is idempotent.  The stop() of an instance is invoked at most
\* once for its entry in the table, and never while the entry is still there,
\* whatever del, deleteAll, stopAll and notifications follow; a delete or
\* change notification for an id without an entry, an all-delete
\* notification, a deleteAll or a stopAll on an empty table, and a del of an
\* id without an entry invoke no stop(), leave the table as it is and do not
\* fail.
C33_TeardownOnce ==
    [][/\ \A i \in 1..Len(instances') : instances'[i].stops <= 1
       /\ \A p \in DOMAIN tracked' : instances'[tracked'[p]].stops = 0
       /\ (/\ last' /= last
           /\ \/ last'.op \in {"imposter_delete", "imposter_change", "del"}
                 /\ last'.port \notin DOMAIN tracked
              \/ last'.op \in {"all_imposters_delete", "deleteAll", "stopAll"}
                 /\ tracked = NoFields)
          => /\ \A i \in 1..Len(instances) : instances'[i] = instances[i]
             /\ tracked' = tracked
             /\ last'.op /= "del" => ~last'.threw]_vars

\* A delete notification has been handled for a port that had no entry, after
\* the stop() of an instance of that port had been invoked.
C33_Witness ==
    /\ last.op = "imposter_delete" /\ stopped = {}
    /\ \E i \in 1..Len(instances) : instances[i].port = last.port /\ instances[i].stops = 1

\* C37: delete wins over a reload in flight.  In a process that is subscribed,
\* once every notification has been received and every handler has finished,
\* an id whose record is gone from the store has no entry in the table.
C37_DeleteWins ==
    \A p \in Ports :
       (/\ subscriptions = Channels /\ listening = Channels
        /\ inbox = <<>> /\ handlers = NoFields
        /\ ~IsSome(getImposter(Store, p)))
       => p \notin DOMAIN tracked

\* C38: no imposter instance leaks.  In every state with no handler in flight,
\* every instance the process obtained is the one the table records for its
\* port, or its stop() has been invoked.
C38_NoLeakedInstance ==
    handlers = NoFields
    => \A i \in 1..Len(instances) :
          \/ instances[i].stops >= 1
          \/ instances[i].port \in DOMAIN tracked /\ tracked[instances[i].port] = i

\* C34: a change reaches the other process.  Once the saves of the other
\* process have stopped, a subscribed process that has the protocol of a
\* stored imposter ends up, and stays, with the port in its table holding an
\* instance that createImposterFrom built from the record that is stored.
C34_ChangePropagates ==
    <>[](\A p \in Ports :
            (/\ subscriptions = Channels
             /\ IsSome(getImposter(Store, p))
             /\ Val(getImposter(Store, p)).protocol \in appProtocols)
            => /\ p \in DOMAIN tracked
               /\ instances[tracked[p]].from = getImposter(Store, p))

====
